---- MODULE Spec2Model ----
(***************************************************************************)
(* Verification model of the invoice allocation engine (app/processing.py) *)
(* and of the analyze passes that drive it (app/main.py) against the       *)
(* per-vendor user directories (app/*_directory.py).                       *)
(*                                                                         *)
(* Representation.  A Decimal is an integer number of thousandths (mills): *)
(* 10.00 is 10000.  Quantize rounds half-even to whole cents.  Strings     *)
(* are TLA+ strings; str.strip() and str.lower() are tabulated on the      *)
(* finite universe of raw strings the model draws its inputs from.  A      *)
(* line key "<i>:<name>" is the pair <<i, name>> (the text before the      *)
(* first colon is the decimal ordinal, so the pair determines the string   *)
(* and the string the pair).                                               *)
(***************************************************************************)
EXTENDS Integers, Sequences, FiniteSets, TLC

(***************************************************************************)
(* Bounds of the model.                                                    *)
(***************************************************************************)
MaxExtra == 2
MaxUpdates == 2
MaxLines == 1
MaxUsers == 2
MaxRows == 3
MaxBlocks == 2
MaxPasses == 3
MaxCsvRows == 2

(***************************************************************************)
(* Program constants.                                                      *)
(***************************************************************************)
INTEGRICOM_HOME_OFFICE == "Home Office"
ADOBE_HOME_OFFICE == "Home Office"
INTEGRICOM_DISTRICT_BRANCHES ==
  << "Acworth", "Canton", "Charleston", "Cobb", "Color Burst", "Doraville",
     "Destin", "Fort Walton", "Pensacola", "Nashville", "Savannah",
     "St. Pete", "Tampa" >>
INTEGRICOM_MANAGED_INTERNET_BRANCHES ==
  << INTEGRICOM_HOME_OFFICE >> \o INTEGRICOM_DISTRICT_BRANCHES
INTEGRICOM_KNOWN_BRANCHES ==
  << INTEGRICOM_HOME_OFFICE >> \o INTEGRICOM_DISTRICT_BRANCHES
     \o << "Sugar Hill", "Grayson" >>
FIREWALL_DISTRICT_OFFICE_BRANCHES ==
  << "Canton", "Cobb", "Doraville", "Destin", "Fort Walton", "Tampa",
     "Savannah", "Charleston", "Nashville", "Color Burst", "Acworth" >>
SUGAR_HILL_AMOUNT == 97000

INTEGRICOM_LICENSE_BP == "Microsoft 365 Business Premium"
INTEGRICOM_LICENSE_P1 == "Exchange Online (Plan 1)"
INTEGRICOM_LICENSE_P2 == "Exchange Online (Plan 2)"
INTEGRICOM_LICENSE_F3 == "Microsoft 365 F3"
INTEGRICOM_LICENSE_TEAMS_ESSENTIALS == "Microsoft Teams Essentials"

\* The dynamic-match set without the F3 line.
dynamic_licenses_Short ==
  { "Workstation", "Office 365 Cloud Backup",
    "Microsoft Business Premium Annual", "Exchange Online P1 Annual",
    "Exchange Online P2 Annual" }

dynamic_licenses ==
  { "Workstation", "Office 365 Cloud Backup",
    "Microsoft Business Premium Annual", "Exchange Online P1 Annual",
    "Microsoft F3 Annual", "Exchange Online P2 Annual" }

fixed_home_office ==
  { "Ticketing System User License", "Documentation System License",
    "Monthly Block Hours", "Dark Web Monitoring", "IT Automation Tool",
    "Teams Rooms Pro", "NetWatch360 MAC", "NetWatch360 Managed Server",
    "Dropbox Business Standard", "DP Server Image Backup Cloud",
    "Power BI Pro", "Microsoft Teams Essentials NCE Annual",
    "M365 Microsoft E5", "M365 Intune", "Prorated M365", "AWS Cloud Server",
    "Keeper Enterprise Password Manager", "Teams Audio Conferencing" }

(***************************************************************************)
(* Generic helpers.                                                        *)
(***************************************************************************)
Range(s) == { s[i] : i \in 1..Len(s) }

Min(a, b) == IF a < b THEN a ELSE b

Max(a, b) == IF a > b THEN a ELSE b

\* The least element of a non-empty set of integers.
MinOf(S) == CHOOSE x \in S : \A y \in S : x <= y

SeqsUpTo(S, n) == UNION { [1..k -> S] : k \in 0..n }

\* x or y on Python strings: the first operand unless it is empty.
StrOr(x, y) == IF x # "" THEN x ELSE y

\* str.strip() on the raw strings of the model.
Strip(s) ==
  CASE s = "  " -> ""
    [] s = " Canton " -> "Canton"
    [] s = " Grayson" -> "Grayson"
    [] s = " ann@x.com " -> "ann@x.com"
    [] s = " Ann@X.com" -> "Ann@X.com"
    [] s = " Integricom " -> "Integricom"
    [] OTHER -> s

\* str.lower() on the raw strings of the model.
Lower(s) ==
  CASE s = "Ann@X.com" -> "ann@x.com"
    [] s = " Ann@X.com" -> " ann@x.com"
    [] s = "Guest#EXT#@x.com" -> "guest#ext#@x.com"
    [] s = "Unlicensed" -> "unlicensed"
    [] s = "Integricom" -> "integricom"
    [] s = "Home Office" -> "home office"
    [] s = "Acworth" -> "acworth"
    [] s = "Canton" -> "canton"
    [] s = "Charleston" -> "charleston"
    [] s = "Cobb" -> "cobb"
    [] s = "Color Burst" -> "color burst"
    [] s = "Doraville" -> "doraville"
    [] s = "Destin" -> "destin"
    [] s = "Fort Walton" -> "fort walton"
    [] s = "Pensacola" -> "pensacola"
    [] s = "Nashville" -> "nashville"
    [] s = "Savannah" -> "savannah"
    [] s = "St. Pete" -> "st. pete"
    [] s = "Tampa" -> "tampa"
    [] s = "Sugar Hill" -> "sugar hill"
    [] s = "Grayson" -> "grayson"
    [] s = "FW - Savannah - packet loss" -> "fw - savannah - packet loss"
    [] s = "Canton and Tampa printers" -> "canton and tampa printers"
    [] s = "Review admin consent request" -> "review admin consent request"
    [] s = "Microsoft 365 Products:" -> "microsoft 365 products:"
    [] s = "Sales Tax: 0.00" -> "sales tax: 0.00"
    [] s = "Total Products & Other 3.00 $10.00 $30.00" -> "total products & other 3.00 $10.00 $30.00"
    [] s = "Firewall 1.00 $50.00 $50.00" -> "firewall 1.00 $50.00 $50.00"
    [] s = "Firewall" -> "firewall"
    [] s = "NetWatch360" -> "netwatch360"
    [] s = "NetWatch360 Firewall" -> "netwatch360 firewall"
    [] s = "Managed" -> "managed"
    [] s = "Managed Firewall" -> "managed firewall"
    [] s = "NetWatch360 NetWatch360" -> "netwatch360 netwatch360"
    [] s = "NetWatch360 NetWatch360 Firewall" -> "netwatch360 netwatch360 firewall"
    [] s = "NetWatch360 Managed" -> "netwatch360 managed"
    [] s = "Managed NetWatch360" -> "managed netwatch360"
    [] s = "Managed NetWatch360 Firewall" -> "managed netwatch360 firewall"
    [] s = "Managed Managed" -> "managed managed"
    [] s = "Managed Managed Firewall" -> "managed managed firewall"
    [] s = "NetWatch360 NetWatch360 NetWatch360" -> "netwatch360 netwatch360 netwatch360"
    [] s = "NetWatch360 NetWatch360 NetWatch360 Firewall" -> "netwatch360 netwatch360 netwatch360 firewall"
    [] s = "NetWatch360 NetWatch360 Managed" -> "netwatch360 netwatch360 managed"
    [] s = "NetWatch360 NetWatch360 Managed Firewall" -> "netwatch360 netwatch360 managed firewall"
    [] s = "NetWatch360 Managed NetWatch360" -> "netwatch360 managed netwatch360"
    [] s = "NetWatch360 Managed NetWatch360 Firewall" -> "netwatch360 managed netwatch360 firewall"
    [] s = "NetWatch360 Managed Managed" -> "netwatch360 managed managed"
    [] s = "NetWatch360 Managed Managed Firewall" -> "netwatch360 managed managed firewall"
    [] s = "Managed NetWatch360 NetWatch360" -> "managed netwatch360 netwatch360"
    [] s = "Managed NetWatch360 NetWatch360 Firewall" -> "managed netwatch360 netwatch360 firewall"
    [] s = "Managed NetWatch360 Managed" -> "managed netwatch360 managed"
    [] s = "Managed NetWatch360 Managed Firewall" -> "managed netwatch360 managed firewall"
    [] s = "Managed Managed NetWatch360" -> "managed managed netwatch360"
    [] s = "Managed Managed NetWatch360 Firewall" -> "managed managed netwatch360 firewall"
    [] s = "Managed Managed Managed" -> "managed managed managed"
    [] s = "Managed Managed Managed Firewall" -> "managed managed managed firewall"
    [] s = "NetWatch360 Managed User/Workstation" -> "netwatch360 managed user/workstation"
    [] s = "NetWatch360 Managed Firewall" -> "netwatch360 managed firewall"
    [] s = "NetWatch360 Managed Network Device" -> "netwatch360 managed network device"
    [] s = "NetWatch360 Managed Internet" -> "netwatch360 managed internet"
    [] s = "Firewall Security Subscription, Main Office" -> "firewall security subscription, main office"
    [] s = "Firewall Security Subscription, District Office" -> "firewall security subscription, district office"
    [] s = "Firewall Security Subscription, Latest FW bought in 2025" -> "firewall security subscription, latest fw bought in 2025"
    [] s = "Ticketing System User License" -> "ticketing system user license"
    [] s = "Documentation System" -> "documentation system"
    [] s = "Monthly Recurring Block" -> "monthly recurring block"
    [] s = "Dark Web Monitoring" -> "dark web monitoring"
    [] s = "IT Automation Tool" -> "it automation tool"
    [] s = "Teams Rooms Pro" -> "teams rooms pro"
    [] s = "NetWatch360 MAC" -> "netwatch360 mac"
    [] s = "NetWatch360 Managed Server" -> "netwatch360 managed server"
    [] s = "Dropbox Business Standard" -> "dropbox business standard"
    [] s = "Office 365 Cloud Backup" -> "office 365 cloud backup"
    [] s = "DP Server Image Backup, Cloud" -> "dp server image backup, cloud"
    [] s = "Microsoft 365 Business Premium" -> "microsoft 365 business premium"
    [] s = "Power BI Pro" -> "power bi pro"
    [] s = "Project Plan 3" -> "project plan 3"
    [] s = "Exchange Online P1" -> "exchange online p1"
    [] s = "Microsoft F3" -> "microsoft f3"
    [] s = "Exchange Online Plan 2" -> "exchange online plan 2"
    [] s = "Teams Essentials" -> "teams essentials"
    [] s = "Microsoft E5" -> "microsoft e5"
    [] s = "Intune" -> "intune"
    [] s = "Prorated M365" -> "prorated m365"
    [] s = "Teams Audio Conferencing" -> "teams audio conferencing"
    [] s = "AWS Cloud Server" -> "aws cloud server"
    [] s = "Keeper Enterprise" -> "keeper enterprise"
    [] s = "Keeper" -> "keeper"
    [] s = "Monthly Block Hours" -> "monthly block hours"
    [] s = "Exchange Online P2" -> "exchange online p2"
    [] s = "Managed Firewall Security Subscription, Main Office" -> "managed firewall security subscription, main office"
    [] s = "Managed Server" -> "managed server"
    [] s = "Business Premium" -> "business premium"
    [] s = "Prorated M365 Intune" -> "prorated m365 intune"
    [] s = "NetWatch360 MAC Annual" -> "netwatch360 mac annual"
    [] s = "Unknown Widget" -> "unknown widget"
    [] s = "Workstation" -> "workstation"
    [] OTHER -> s

\* The strings the model sorts (branch and license names of the breakdown
\* inputs, charge summaries), in the order Python compares strings (by code
\* point).
StringOrder ==
  << "Adobe Invoice Adjustment", "Canton", "Canton and Tampa printers",
     "FW - Savannah - packet loss", "Hexnode UEM Cloud Pro Edition",
     "Home Office", "Integricom Invoice Adjustment",
     "Integricom Support Invoice Adjustment", "Photoshop",
     "Review admin consent request", "Workstation" >>

StringRank(s) == CHOOSE i \in 1..Len(StringOrder) : StringOrder[i] = s

\* a < b on strings.
StrLess(a, b) == StringRank(a) < StringRank(b)

\* email.strip().lower()
NormalizeEmail(e) == Lower(Strip(e))

\* Decimal.quantize(Decimal("0.01")) under ROUND_HALF_EVEN, on mills.
Quantize(m) ==
  LET a == IF m >= 0 THEN m ELSE -m
      q == a \div 10
      r == a % 10
      up == IF r > 5 \/ (r = 5 /\ q % 2 = 1) THEN q + 1 ELSE q
  IN  IF m >= 0 THEN up * 10 ELSE -(up * 10)

\* int(Decimal): truncation toward zero, on mills.
IntOf(m) == IF m >= 0 THEN m \div 1000 ELSE -((-m) \div 1000)

\* f"{line_index}:{canonical_name}"
LineKey(line_index, canonical_name) == << line_index, canonical_name >>

\* The empty line key "".
BlankLineKey == << >>

(***************************************************************************)
(* _integricom_user_matches_rule                                           *)
(***************************************************************************)
IntegricomUserMatchesRule(user, canonical_line) ==
  LET tokens == Range(user.licenses)
  IN  CASE canonical_line = "Workstation" ->
             \E token \in { INTEGRICOM_LICENSE_BP, INTEGRICOM_LICENSE_P1,
                            INTEGRICOM_LICENSE_P2, INTEGRICOM_LICENSE_F3,
                            INTEGRICOM_LICENSE_TEAMS_ESSENTIALS } :
                token \in tokens
        [] canonical_line = "Office 365 Cloud Backup" ->
             INTEGRICOM_LICENSE_BP \in tokens \/ INTEGRICOM_LICENSE_P1 \in tokens
        [] canonical_line = "Microsoft Business Premium Annual" ->
             INTEGRICOM_LICENSE_BP \in tokens
        [] canonical_line = "Exchange Online P1 Annual" ->
             INTEGRICOM_LICENSE_P1 \in tokens
        [] canonical_line = "Microsoft F3 Annual" ->
             INTEGRICOM_LICENSE_F3 \in tokens
        [] canonical_line = "Exchange Online P2 Annual" ->
             INTEGRICOM_LICENSE_P2 \in tokens
        [] OTHER -> FALSE

(***************************************************************************)
(* _allocate_integricom_fixed_line and its nested helpers.  The closure    *)
(* variables rows, warnings, pending_branch_prompts travel in a record.    *)
(***************************************************************************)
add_row(rows, canonical_name, branch, amount) ==
  LET quantized == Quantize(amount)
  IN  IF quantized = 0
        THEN rows
        ELSE Append(rows, [ source_file |-> "invoice",
                            branch |-> StrOr(branch, INTEGRICOM_HOME_OFFICE),
                            license |-> canonical_name,
                            amount |-> quantized ])

available_branches(already_assigned_branches) ==
  SelectSeq(INTEGRICOM_KNOWN_BRANCHES,
            LAMBDA branch : branch \notin Range(already_assigned_branches))

add_branch_prompt(prompts, line, line_key, prompt_index, already_assigned_branches, submitted_branch, validation_error) ==
  Append(prompts,
         [ line_key |-> line_key,
           prompt_index |-> prompt_index,
           license |-> line.canonical_name,
           unit_price |-> Quantize(line.unit_price),
           quantity |-> IntOf(line.quantity),
           already_assigned_branches |-> already_assigned_branches,
           available_branches |-> available_branches(already_assigned_branches),
           branch |-> submitted_branch,
           validation_error |-> validation_error ])

\* branch_assignment_updates.get((line_key, prompt_index)) or ""
UpdateFor(branch_assignment_updates, line_key, prompt_index) ==
  IF << line_key, prompt_index >> \in DOMAIN branch_assignment_updates
    THEN branch_assignment_updates[<< line_key, prompt_index >>]
    ELSE ""

\* A submission forgotten once accepted: the branch is charged but not
\* remembered as assigned.
AcceptExtraUnit_Forgets(acc, line, submitted_branch) ==
  [ acc EXCEPT
      !.rows = add_row(@, line.canonical_name, submitted_branch,
                       Quantize(line.unit_price)),
      !.assigned_branch_order = Append(@, submitted_branch) ]

\* An accepted submission: the unit is charged to the submitted branch, which
\* joins the branches assigned to the line.
AcceptExtraUnit(acc, line, submitted_branch) ==
  [ acc EXCEPT
      !.rows = add_row(@, line.canonical_name, submitted_branch,
                       Quantize(line.unit_price)),
      !.assigned_branch_set = @ \cup { submitted_branch },
      !.assigned_branch_order = Append(@, submitted_branch) ]

\* One iteration of "for prompt_index in range(1, extra_units + 1)".
ExtraUnitStep(acc, line, line_key, branch_assignment_updates, prompt_index) ==
  LET unit == Quantize(line.unit_price)
      submitted_branch ==
        Strip(UpdateFor(branch_assignment_updates, line_key, prompt_index))
  IN  IF submitted_branch = ""
        THEN [ acc EXCEPT !.prompts =
                 add_branch_prompt(@, line, line_key, prompt_index,
                                   acc.assigned_branch_order, "", "") ]
      ELSE IF submitted_branch \in acc.assigned_branch_set
        THEN [ acc EXCEPT
                 !.warnings = Append(@, [ kind |-> "already_assigned",
                                          name |-> line.canonical_name,
                                          branch |-> submitted_branch,
                                          prompt_index |-> prompt_index ]),
                 !.prompts =
                   add_branch_prompt(@, line, line_key, prompt_index,
                                     acc.assigned_branch_order,
                                     submitted_branch, "already assigned") ]
      ELSE AcceptExtraUnit(acc, line, submitted_branch)

\* The loop written as range(1, extra_units): the last extra unit is skipped.
RECURSIVE ExtraUnitLoop_Short(_, _, _, _, _, _)
ExtraUnitLoop_Short(acc, line, line_key, branch_assignment_updates, prompt_index, extra_units) ==
  IF prompt_index >= extra_units
    THEN acc
    ELSE ExtraUnitLoop_Short(
           ExtraUnitStep(acc, line, line_key, branch_assignment_updates,
                         prompt_index),
           line, line_key, branch_assignment_updates, prompt_index + 1,
           extra_units)

RECURSIVE ExtraUnitLoop(_, _, _, _, _, _)
ExtraUnitLoop(acc, line, line_key, branch_assignment_updates, prompt_index, extra_units) ==
  IF prompt_index > extra_units
    THEN acc
    ELSE ExtraUnitLoop(
           ExtraUnitStep(acc, line, line_key, branch_assignment_updates,
                         prompt_index),
           line, line_key, branch_assignment_updates, prompt_index + 1,
           extra_units)

RECURSIVE AddUnitRows(_, _, _, _)
AddUnitRows(rows, canonical_name, branches, unit) ==
  IF branches = << >>
    THEN rows
    ELSE AddUnitRows(add_row(rows, canonical_name, Head(branches), unit),
                     canonical_name, Tail(branches), unit)

\* The template used whole, whatever the invoice quantity.
AssignedUnits_WholeTemplate(qty_int, branches) == Len(branches)

\* assigned_units = min(max(qty_int, 0), len(branches))
AssignedUnits(qty_int, branches) == Min(Max(qty_int, 0), Len(branches))

\* The state of the closure after the template branches got their units.
TemplateUnits(line, qty_int, assigned_branch_order) ==
  [ rows |-> AddUnitRows(<< >>, line.canonical_name, assigned_branch_order,
                         Quantize(line.unit_price)),
    warnings |-> << >>,
    prompts |-> << >>,
    assigned_branch_set |-> Range(assigned_branch_order),
    assigned_branch_order |-> assigned_branch_order ]

\* "if qty_int < len(branches): warnings.append(...)"
TemplateShortWarning(acc, line, qty_int, branches) ==
  IF qty_int < Len(branches)
    THEN [ acc EXCEPT
             !.warnings = Append(@, [ kind |-> "template_short",
                                      name |-> line.canonical_name,
                                      quantity |-> qty_int,
                                      used |-> AssignedUnits(qty_int, branches) ]) ]
    ELSE acc

\* Variant: the residual is posted while prompts are pending, too.
SequenceResidual_WhilePending(line, acc, remainder) ==
  [ rows |-> IF remainder # 0
               THEN add_row(acc.rows, line.canonical_name,
                            INTEGRICOM_HOME_OFFICE, remainder)
               ELSE acc.rows,
    warnings |-> IF acc.prompts # << >>
                   THEN Append(acc.warnings,
                               [ kind |-> "extras_required",
                                 name |-> line.canonical_name,
                                 count |-> Len(acc.prompts) ])
                   ELSE acc.warnings,
    prompts |-> acc.prompts ]

\* The end of allocate_by_unit_sequence: stop while a prompt is pending,
\* else post the residual to Home Office.
SequenceResidual(line, acc, remainder) ==
  IF acc.prompts # << >>
    THEN [ rows |-> acc.rows,
           warnings |-> Append(acc.warnings,
                               [ kind |-> "extras_required",
                                 name |-> line.canonical_name,
                                 count |-> Len(acc.prompts) ]),
           prompts |-> acc.prompts ]
    ELSE [ rows |-> IF remainder # 0
                      THEN add_row(acc.rows, line.canonical_name,
                                   INTEGRICOM_HOME_OFFICE, remainder)
                      ELSE acc.rows,
           warnings |-> acc.warnings,
           prompts |-> acc.prompts ]

\* remainder = total - unit x len(assigned_branch_order), in cents.
SequenceRemainder(line, acc) ==
  Quantize(Quantize(line.amount)
           - Quantize(Quantize(line.unit_price) * Len(acc.assigned_branch_order)))

SequenceFinish(line, acc) == SequenceResidual(line, acc, SequenceRemainder(line, acc))

SequenceFrom(line, line_key, branch_assignment_updates, branches, qty_int) ==
  SequenceFinish(
    line,
    ExtraUnitLoop(
      TemplateShortWarning(
        TemplateUnits(line, qty_int,
                      SubSeq(branches, 1, AssignedUnits(qty_int, branches))),
        line, qty_int, branches),
      line, line_key, branch_assignment_updates, 1,
      Max(qty_int - Len(branches), 0)))

allocate_by_unit_sequence(line, line_key, branch_assignment_updates, branches) ==
  SequenceFrom(line, line_key, branch_assignment_updates, branches,
               IntOf(line.quantity))

\* A result of rows alone.
RowsOnly(rows) == [ rows |-> rows, warnings |-> << >>, prompts |-> << >> ]

\* The split rule with the baseline itself counted as below it.
SplitThreshold_Strict(name, total) ==
  IF total > SUGAR_HILL_AMOUNT
    THEN RowsOnly(add_row(add_row(<< >>, name, "Sugar Hill", SUGAR_HILL_AMOUNT),
                          name, INTEGRICOM_HOME_OFFICE,
                          total - SUGAR_HILL_AMOUNT))
    ELSE [ rows |-> add_row(<< >>, name, INTEGRICOM_HOME_OFFICE, total),
           warnings |-> << [ kind |-> "below_split_baseline", name |-> name ] >>,
           prompts |-> << >> ]

\* The split rule of "Firewall Security Subscription Main Office".
SplitThreshold(name, total) ==
  IF total >= SUGAR_HILL_AMOUNT
    THEN RowsOnly(add_row(add_row(<< >>, name, "Sugar Hill", SUGAR_HILL_AMOUNT),
                          name, INTEGRICOM_HOME_OFFICE,
                          total - SUGAR_HILL_AMOUNT))
    ELSE [ rows |-> add_row(<< >>, name, INTEGRICOM_HOME_OFFICE, total),
           warnings |-> << [ kind |-> "below_split_baseline", name |-> name ] >>,
           prompts |-> << >> ]

\* The fallback without its warning.
NoRuleConfigured_Silent(name, total) ==
  RowsOnly(add_row(<< >>, name, INTEGRICOM_HOME_OFFICE, total))

\* The final fallback: no rule for the canonical name.
NoRuleConfigured(name, total) ==
  [ rows |-> add_row(<< >>, name, INTEGRICOM_HOME_OFFICE, total),
    warnings |-> << [ kind |-> "no_rule", name |-> name ] >>,
    prompts |-> << >> ]

\* A charge posted whole to one branch.
WholeTo(line, branch) ==
  RowsOnly(add_row(<< >>, line.canonical_name, branch, Quantize(line.amount)))

AllocateIntegricomFixedLine(line, line_key, branch_assignment_updates) ==
  IF line.canonical_name \in fixed_home_office
    THEN WholeTo(line, INTEGRICOM_HOME_OFFICE)
  ELSE IF line.canonical_name = "NetWatch360 Managed Firewall"
    THEN allocate_by_unit_sequence(line, line_key, branch_assignment_updates,
                                   INTEGRICOM_DISTRICT_BRANCHES)
  ELSE IF line.canonical_name = "NetWatch360 Managed Network Device"
    THEN WholeTo(line, INTEGRICOM_HOME_OFFICE)
  ELSE IF line.canonical_name = "NetWatch360 Managed Internet"
    THEN allocate_by_unit_sequence(line, line_key, branch_assignment_updates,
                                   INTEGRICOM_MANAGED_INTERNET_BRANCHES)
  ELSE IF line.canonical_name = "Firewall Security Subscription Main Office"
    THEN SplitThreshold(line.canonical_name, Quantize(line.amount))
  ELSE IF line.canonical_name = "Firewall Security Subscription District Office"
    THEN allocate_by_unit_sequence(line, line_key, branch_assignment_updates,
                                   FIREWALL_DISTRICT_OFFICE_BRANCHES)
  ELSE IF line.canonical_name = "Firewall Security Subscription Latest 2025"
    THEN WholeTo(line, "St. Pete")
  ELSE IF line.canonical_name = "Project Plan 3"
    THEN WholeTo(line, "Sugar Hill")
  ELSE NoRuleConfigured(line.canonical_name, Quantize(line.amount))

(***************************************************************************)
(* build_integricom_user_allocations                                       *)
(***************************************************************************)
\* The loop that turns branch_item_updates into the map keyed by
\* (line_key, prompt_index); a later entry for a key replaces an earlier one.
RECURSIVE BranchAssignmentUpdatesMap(_, _)
BranchAssignmentUpdatesMap(branch_item_updates, map) ==
  IF branch_item_updates = << >>
    THEN map
    ELSE LET update == Head(branch_item_updates)
             branch == Strip(update.branch)
             key == << update.line_key, update.prompt_index >>
         IN  IF update.line_key = BlankLineKey \/ update.prompt_index < 1
               THEN BranchAssignmentUpdatesMap(Tail(branch_item_updates), map)
               ELSE BranchAssignmentUpdatesMap(
                      Tail(branch_item_updates),
                      [ k \in DOMAIN map \cup { key } |->
                          IF k = key THEN branch ELSE map[k] ])

\* profile.get("branch") if profile else ""
ProfileBranch(user_directory, email) ==
  IF email \in DOMAIN user_directory THEN user_directory[email].branch ELSE ""

\* The "for user in users" loop: user_rows_map and unresolved_emails.
RECURSIVE IntegricomUserRowsLoop(_, _, _)
IntegricomUserRowsLoop(users, user_directory, acc) ==
  IF users = << >>
    THEN acc
    ELSE LET user == Head(users)
             email == NormalizeEmail(user.email)
             branch == Strip(StrOr(ProfileBranch(user_directory, email),
                                   user.default_branch))
             entry == [ email |-> email, branch |-> branch,
                        licenses |-> << >>, user_total |-> 0 ]
             map == acc.user_rows_map
         IN  IF email = ""
               THEN IntegricomUserRowsLoop(Tail(users), user_directory, acc)
               ELSE IntegricomUserRowsLoop(
                      Tail(users), user_directory,
                      [ user_rows_map |->
                          [ e \in DOMAIN map \cup { email } |->
                              IF e = email THEN entry ELSE map[e] ],
                        unresolved_emails |->
                          IF branch = "" /\ email \notin Range(acc.unresolved_emails)
                            THEN Append(acc.unresolved_emails, email)
                            ELSE acc.unresolved_emails ])

\* entry = user_rows_map.get(user.email): the key used inside the
\* per-line loop is the user's email field as it stands.
MatchedUserKey(user) == user.email

\* The "for user in matched_users" loop of one dynamic line.
RECURSIVE MatchedUsersLoop(_, _, _)
MatchedUsersLoop(matched_users, line, acc) ==
  IF matched_users = << >>
    THEN acc
    ELSE LET user == Head(matched_users)
             key == MatchedUserKey(user)
             map == acc.user_rows_map
         IN  IF key \notin DOMAIN map
               THEN MatchedUsersLoop(Tail(matched_users), line, acc)
               ELSE LET entry == map[key]
                        licenses ==
                          IF line.canonical_name \in Range(entry.licenses)
                            THEN entry.licenses
                            ELSE Append(entry.licenses, line.canonical_name)
                        updated ==
                          [ entry EXCEPT !.licenses = licenses,
                                         !.user_total = @ + line.unit_price ]
                    IN  MatchedUsersLoop(
                          Tail(matched_users), line,
                          [ acc EXCEPT
                              !.user_rows_map = [ map EXCEPT ![key] = updated ],
                              !.line_rows =
                                IF entry.branch # ""
                                  THEN Append(@, [ source_file |-> "invoice",
                                                   branch |-> entry.branch,
                                                   license |-> line.canonical_name,
                                                   amount |-> line.unit_price ])
                                  ELSE @ ])

\* Variant: the difference taken on quantity - matched_count.
DynamicRemainder_ByQuantity(line, matched_count) ==
  Quantize((IntOf(line.quantity) - matched_count) * line.unit_price)

\* The reconciliation remainder of a dynamic line.
DynamicRemainder(line, matched_count) ==
  Quantize(line.amount - Quantize(line.unit_price * matched_count))

\* "if matched_count != invoice_qty: warnings.append(...)"
QuantityMismatchWarning(acc, line, matched_count) ==
  IF matched_count # IntOf(line.quantity)
    THEN [ acc EXCEPT
             !.warnings = Append(@, [ kind |-> "quantity_mismatch",
                                      name |-> line.canonical_name,
                                      quantity |-> IntOf(line.quantity),
                                      matched |-> matched_count ]) ]
    ELSE acc

RemainderRow(line, remainder) ==
  [ source_file |-> "invoice", branch |-> INTEGRICOM_HOME_OFFICE,
    license |-> line.canonical_name, amount |-> remainder ]

\* "if remainder != 0: line_rows.append(...); non_user_rows_raw.append(...)"
PostRemainder(acc, line, remainder) ==
  IF remainder # 0
    THEN [ acc EXCEPT
             !.line_rows = Append(@, RemainderRow(line, remainder)),
             !.non_user_rows_raw =
               Append(@, [ row |-> RemainderRow(line, remainder),
                           allocation_type |-> "Invoice Delta" ]) ]
    ELSE acc

\* The body of the per-line loop for a line in dynamic_licenses, given the
\* users the line's rule matches.
DynamicLineOver(matched_users, line, acc) ==
  PostRemainder(
    QuantityMismatchWarning(MatchedUsersLoop(matched_users, line, acc),
                            line, Len(matched_users)),
    line, DynamicRemainder(line, Len(matched_users)))

DynamicLine(users, line, acc) ==
  DynamicLineOver(
    SelectSeq(users,
              LAMBDA user : IntegricomUserMatchesRule(user, line.canonical_name)),
    line, acc)

\* line_rows.extend(fixed_rows) ... unresolved_branch_prompts.extend(...)
ExtendWithFixed(acc, fixed) ==
  [ acc EXCEPT
      !.line_rows = @ \o fixed.rows,
      !.non_user_rows_raw =
        @ \o [ i \in 1..Len(fixed.rows) |->
                 [ row |-> fixed.rows[i],
                   allocation_type |-> "Fixed Branch Item" ] ],
      !.warnings = @ \o fixed.warnings,
      !.unresolved_branch_prompts = @ \o fixed.prompts ]

\* The body of the per-line loop for every other line.
FixedLine(line, line_key, branch_assignment_updates, acc) ==
  ExtendWithFixed(acc, AllocateIntegricomFixedLine(line, line_key,
                                                   branch_assignment_updates))

\* The key without the ordinal of the line.
InvoiceLineStep_ByName(users, line, line_index, branch_assignment_updates, acc) ==
  IF line.canonical_name \in dynamic_licenses
    THEN DynamicLine(users, line, acc)
    ELSE FixedLine(line, LineKey(0, line.canonical_name),
                   branch_assignment_updates, acc)

\* One iteration of "for line_index, line in enumerate(invoice_lines, start=1)"
InvoiceLineStep(users, line, line_index, branch_assignment_updates, acc) ==
  IF line.canonical_name \in dynamic_licenses
    THEN DynamicLine(users, line, acc)
    ELSE FixedLine(line, LineKey(line_index, line.canonical_name),
                   branch_assignment_updates, acc)

RECURSIVE InvoiceLinesLoop(_, _, _, _, _)
InvoiceLinesLoop(users, invoice_lines, branch_assignment_updates, line_index, acc) ==
  IF line_index > Len(invoice_lines)
    THEN acc
    ELSE InvoiceLinesLoop(
           users, invoice_lines, branch_assignment_updates, line_index + 1,
           InvoiceLineStep(users, invoice_lines[line_index], line_index,
                           branch_assignment_updates, acc))

\* The accumulators of build_integricom_user_allocations before the
\* per-line loop.
LinesStart(user_rows_map) ==
  [ line_rows |-> << >>, non_user_rows_raw |-> << >>, warnings |-> << >>,
    unresolved_branch_prompts |-> << >>, user_rows_map |-> user_rows_map ]

UsersStart == [ user_rows_map |-> << >>, unresolved_emails |-> << >> ]

\* The tuple the function returns.
AllocationResult(unresolved_emails, done) ==
  [ line_rows |-> done.line_rows,
    user_rows |->
      [ e \in DOMAIN done.user_rows_map |->
          [ done.user_rows_map[e] EXCEPT !.user_total = Quantize(@) ] ],
    non_user_rows_raw |-> done.non_user_rows_raw,
    warnings |-> done.warnings,
    unresolved_emails |-> unresolved_emails,
    unresolved_branch_prompts |-> done.unresolved_branch_prompts ]

AllocateWith(users, invoice_lines, branch_assignment_updates_map, seeded) ==
  AllocationResult(
    seeded.unresolved_emails,
    InvoiceLinesLoop(users, invoice_lines, branch_assignment_updates_map, 1,
                     LinesStart(seeded.user_rows_map)))

BuildIntegricomUserAllocations(users, user_directory, invoice_lines, branch_item_updates) ==
  AllocateWith(users, invoice_lines,
               BranchAssignmentUpdatesMap(branch_item_updates, << >>),
               IntegricomUserRowsLoop(users, user_directory, UsersStart))

(***************************************************************************)
(* Adobe products                                                          *)
(***************************************************************************)
\* None, as returned by dict.get and by _canonical_adobe_product.
None == "<None>"

\* The pairs << needle, haystack >> of lower-cased strings of the model with
\* needle occurring in haystack.
ContainsPairs ==
  { << "photoshop", "photoshop" >>,
    << "photoshop", "photoshop - pro edition" >>,
    << "photoshop", "photoshop elements" >>,
    << "illustrator", "illustrator" >>,
    << "#ext#", "guest#ext#@x.com" >>,
    << "savannah", "fw - savannah - packet loss" >>,
    << "canton", "canton and tampa printers" >>,
    << "tampa", "canton and tampa printers" >>,
    << "managed user/workstation", "netwatch360 managed user/workstation" >>,
    << "netwatch360", "netwatch360 managed user/workstation" >>,
    << "managed firewall", "netwatch360 managed firewall" >>,
    << "netwatch360", "netwatch360 managed firewall" >>,
    << "managed network device", "netwatch360 managed network device" >>,
    << "netwatch360", "netwatch360 managed network device" >>,
    << "managed internet", "netwatch360 managed internet" >>,
    << "netwatch360", "netwatch360 managed internet" >>,
    << "security subscription", "firewall security subscription, main office" >>,
    << "firewall security subscription, main office", "firewall security subscription, main office" >>,
    << "security subscription", "firewall security subscription, district office" >>,
    << "firewall security subscription, district office", "firewall security subscription, district office" >>,
    << "security subscription", "firewall security subscription, latest fw bought in 2025" >>,
    << "latest fw bought in 2025", "firewall security subscription, latest fw bought in 2025" >>,
    << "fw bought in 2025", "firewall security subscription, latest fw bought in 2025" >>,
    << "ticketing system user license", "ticketing system user license" >>,
    << "documentation system", "documentation system" >>,
    << "monthly recurring block", "monthly recurring block" >>,
    << "dark web monitoring", "dark web monitoring" >>,
    << "it automation tool", "it automation tool" >>,
    << "teams rooms pro", "teams rooms pro" >>,
    << "netwatch360 mac", "netwatch360 mac" >>,
    << "netwatch360", "netwatch360 mac" >>,
    << "managed server", "netwatch360 managed server" >>,
    << "netwatch360", "netwatch360 managed server" >>,
    << "dropbox business standard", "dropbox business standard" >>,
    << "office 365 cloud backup", "office 365 cloud backup" >>,
    << "server image backup, cloud", "dp server image backup, cloud" >>,
    << "business premium", "microsoft 365 business premium" >>,
    << "microsoft 365", "microsoft 365 business premium" >>,
    << "power bi pro", "power bi pro" >>,
    << "project plan 3", "project plan 3" >>,
    << "exchange online p1", "exchange online p1" >>,
    << "microsoft f3", "microsoft f3" >>,
    << "exchange online plan 2", "exchange online plan 2" >>,
    << "teams essentials", "teams essentials" >>,
    << "microsoft e5", "microsoft e5" >>,
    << "intune", "intune" >>,
    << "prorated m365", "prorated m365" >>,
    << "teams audio conferencing", "teams audio conferencing" >>,
    << "aws cloud server", "aws cloud server" >>,
    << "keeper enterprise", "keeper enterprise" >>,
    << "monthly block hours", "monthly block hours" >>,
    << "exchange online p2", "exchange online p2" >>,
    << "managed firewall", "managed firewall security subscription, main office" >>,
    << "security subscription", "managed firewall security subscription, main office" >>,
    << "firewall security subscription, main office", "managed firewall security subscription, main office" >>,
    << "managed server", "managed server" >>,
    << "business premium", "business premium" >>,
    << "intune", "prorated m365 intune" >>,
    << "prorated m365", "prorated m365 intune" >>,
    << "netwatch360 mac", "netwatch360 mac annual" >>,
    << "netwatch360", "netwatch360 mac annual" >>,
    << "email", "email_address" >>,
    << "email", "user_email" >>,
    << "last", "last_name" >>,
    << "name", "last_name" >>,
    << "name", "family_name" >>,
    << "name", "first_name" >>,
    << "name", "given_name" >>,
    << "name", "surname" >>,
    << "netwatch360", "netwatch360" >>,
    << "netwatch360", "netwatch360 firewall" >>,
    << "managed firewall", "managed firewall" >>,
    << "netwatch360", "netwatch360 netwatch360" >>,
    << "netwatch360", "netwatch360 netwatch360 firewall" >>,
    << "netwatch360", "netwatch360 managed" >>,
    << "netwatch360", "managed netwatch360" >>,
    << "netwatch360", "managed netwatch360 firewall" >>,
    << "managed firewall", "managed managed firewall" >>,
    << "netwatch360", "netwatch360 netwatch360 netwatch360" >>,
    << "netwatch360", "netwatch360 netwatch360 netwatch360 firewall" >>,
    << "netwatch360", "netwatch360 netwatch360 managed" >>,
    << "managed firewall", "netwatch360 netwatch360 managed firewall" >>,
    << "netwatch360", "netwatch360 netwatch360 managed firewall" >>,
    << "netwatch360", "netwatch360 managed netwatch360" >>,
    << "netwatch360", "netwatch360 managed netwatch360 firewall" >>,
    << "netwatch360", "netwatch360 managed managed" >>,
    << "managed firewall", "netwatch360 managed managed firewall" >>,
    << "netwatch360", "netwatch360 managed managed firewall" >>,
    << "netwatch360", "managed netwatch360 netwatch360" >>,
    << "netwatch360", "managed netwatch360 netwatch360 firewall" >>,
    << "netwatch360", "managed netwatch360 managed" >>,
    << "managed firewall", "managed netwatch360 managed firewall" >>,
    << "netwatch360", "managed netwatch360 managed firewall" >>,
    << "netwatch360", "managed managed netwatch360" >>,
    << "netwatch360", "managed managed netwatch360 firewall" >>,
    << "managed firewall", "managed managed managed firewall" >> }

\* "needle in haystack" on the lower-cased product names, charge summaries,
\* descriptions and headers of the model.
Contains(needle, haystack) == << needle, haystack >> \in ContainsPairs

\* Python's "needle in haystack" on the strings of the model: the
\* empty string is in every string.
SubstringOf(needle, haystack) ==
  \/ needle = ""
  \/ needle = haystack
  \/ Contains(needle, haystack)

\* _normalize_product_name on the product tokens of the model.
NormalizeProductName(value) ==
  CASE value = "Photoshop" -> "photoshop"
    [] value = " Photoshop (DIRECT) " -> "photoshop"
    [] value = "Photoshop Elements" -> "photoshop elements"
    [] value = "Illustrator" -> "illustrator"
    [] value = "Mystery App" -> "mystery app"
    [] OTHER -> value

ADOBE_PRODUCT_ALIASES ==
  ("acrobat pro" :> "Acrobat Pro") @@
  ("acrobat pro dc" :> "Acrobat Pro") @@
  ("creative cloud pro" :> "Creative Cloud Pro") @@
  ("creative cloud all apps" :> "Creative Cloud Pro") @@
  ("creative cloud all apps - pro edition" :> "Creative Cloud Pro") @@
  ("indesign" :> "InDesign") @@
  ("indesign - pro edition" :> "InDesign") @@
  ("illustrator" :> "Illustrator") @@
  ("lightroom" :> "Lightroom") @@
  ("lightroom single app plan with 1tb" :> "Lightroom") @@
  ("photoshop" :> "Photoshop") @@
  ("photoshop - pro edition" :> "Photoshop") @@
  ("adobe stock - 40 assets a month" :> "Adobe Stock - 40 assets a month") @@
  ("ai assistant for acrobat" :> "AI Assistant for Acrobat")

\* The fallback "contains" checks of _canonical_adobe_product.
FuzzyAdobeProduct(normalized) ==
  IF Contains("acrobat", normalized) /\ ~Contains("assistant", normalized)
    THEN "Acrobat Pro"
  ELSE IF Contains("creative cloud", normalized) THEN "Creative Cloud Pro"
  ELSE IF Contains("indesign", normalized) THEN "InDesign"
  ELSE IF Contains("illustrator", normalized) THEN "Illustrator"
  ELSE IF Contains("lightroom", normalized) THEN "Lightroom"
  ELSE IF Contains("photoshop", normalized) THEN "Photoshop"
  ELSE IF Contains("adobe stock", normalized) /\ Contains("40 assets", normalized)
    THEN "Adobe Stock - 40 assets a month"
  ELSE IF Contains("ai assistant for acrobat", normalized)
    THEN "AI Assistant for Acrobat"
  ELSE None

CanonicalOfNormalized(normalized) ==
  IF normalized = "" THEN None
  ELSE IF normalized \in DOMAIN ADOBE_PRODUCT_ALIASES
    THEN ADOBE_PRODUCT_ALIASES[normalized]
  ELSE FuzzyAdobeProduct(normalized)

CanonicalAdobeProduct(value) == CanonicalOfNormalized(NormalizeProductName(value))

(***************************************************************************)
(* Integricom invoice lines: canonical names                               *)
(***************************************************************************)
\* _normalize_integricom_text on the descriptions and invoice lines of the
\* model: runs of whitespace become one space and the ends are trimmed (the
\* texts of the model carry no en dash).
NormalizeIntegricomText(value) ==
  CASE value = "NetWatch360  MAC Annual" -> "NetWatch360 MAC Annual"
    [] value = " Managed " -> "Managed"
    [] value = "Firewall " -> "Firewall"
    [] OTHER -> Strip(value)

\* The keyword rules of _canonical_integricom_line, in the order of the
\* code; None when no rule applies.
KeywordRule(normalized) ==
  IF Contains("managed user/workstation", normalized)
    THEN "Workstation"
  ELSE IF Contains("managed firewall", normalized) /\ ~Contains("security subscription", normalized)
    THEN "NetWatch360 Managed Firewall"
  ELSE IF Contains("managed network device", normalized)
    THEN "NetWatch360 Managed Network Device"
  ELSE IF Contains("managed internet", normalized)
    THEN "NetWatch360 Managed Internet"
  ELSE IF Contains("firewall security subscription, main office", normalized)
    THEN "Firewall Security Subscription Main Office"
  ELSE IF Contains("firewall security subscription, district office", normalized)
    THEN "Firewall Security Subscription District Office"
  ELSE IF Contains("latest fw bought in 2025", normalized) \/ Contains("fw bought in 2025", normalized)
    THEN "Firewall Security Subscription Latest 2025"
  ELSE IF Contains("ticketing system user license", normalized)
    THEN "Ticketing System User License"
  ELSE IF Contains("documentation system", normalized)
    THEN "Documentation System License"
  ELSE IF Contains("monthly recurring block", normalized) \/ Contains("monthly block hours", normalized)
    THEN "Monthly Block Hours"
  ELSE IF Contains("dark web monitoring", normalized)
    THEN "Dark Web Monitoring"
  ELSE IF Contains("it automation tool", normalized)
    THEN "IT Automation Tool"
  ELSE IF Contains("teams rooms pro", normalized)
    THEN "Teams Rooms Pro"
  ELSE IF Contains("netwatch360 mac", normalized)
    THEN "NetWatch360 MAC"
  ELSE IF Contains("managed server", normalized) /\ Contains("netwatch360", normalized)
    THEN "NetWatch360 Managed Server"
  ELSE IF Contains("dropbox business standard", normalized)
    THEN "Dropbox Business Standard"
  ELSE IF Contains("office 365 cloud backup", normalized)
    THEN "Office 365 Cloud Backup"
  ELSE IF Contains("server image backup, cloud", normalized)
    THEN "DP Server Image Backup Cloud"
  ELSE IF Contains("business premium", normalized) /\ Contains("microsoft 365", normalized)
    THEN "Microsoft Business Premium Annual"
  ELSE IF Contains("power bi pro", normalized)
    THEN "Power BI Pro"
  ELSE IF Contains("project plan 3", normalized)
    THEN "Project Plan 3"
  ELSE IF Contains("exchange online p1", normalized)
    THEN "Exchange Online P1 Annual"
  ELSE IF Contains("microsoft f3", normalized)
    THEN "Microsoft F3 Annual"
  ELSE IF Contains("exchange online plan 2", normalized) \/ Contains("exchange online p2", normalized)
    THEN "Exchange Online P2 Annual"
  ELSE IF Contains("teams essentials", normalized)
    THEN "Microsoft Teams Essentials NCE Annual"
  ELSE IF Contains("microsoft e5", normalized)
    THEN "M365 Microsoft E5"
  ELSE IF Contains("intune", normalized)
    THEN "M365 Intune"
  ELSE IF Contains("prorated m365", normalized)
    THEN "Prorated M365"
  ELSE IF Contains("teams audio conferencing", normalized)
    THEN "Teams Audio Conferencing"
  ELSE IF Contains("aws cloud server", normalized)
    THEN "AWS Cloud Server"
  ELSE IF Contains("keeper enterprise", normalized) \/ normalized = "keeper"
    THEN "Keeper Enterprise Password Manager"
  ELSE None

\* The names the keyword rules can return.
KeywordNames ==
  { "Workstation",
    "NetWatch360 Managed Firewall",
    "NetWatch360 Managed Network Device",
    "NetWatch360 Managed Internet",
    "Firewall Security Subscription Main Office",
    "Firewall Security Subscription District Office",
    "Firewall Security Subscription Latest 2025",
    "Ticketing System User License",
    "Documentation System License",
    "Monthly Block Hours",
    "Dark Web Monitoring",
    "IT Automation Tool",
    "Teams Rooms Pro",
    "NetWatch360 MAC",
    "NetWatch360 Managed Server",
    "Dropbox Business Standard",
    "Office 365 Cloud Backup",
    "DP Server Image Backup Cloud",
    "Microsoft Business Premium Annual",
    "Power BI Pro",
    "Project Plan 3",
    "Exchange Online P1 Annual",
    "Microsoft F3 Annual",
    "Exchange Online P2 Annual",
    "Microsoft Teams Essentials NCE Annual",
    "M365 Microsoft E5",
    "M365 Intune",
    "Prorated M365",
    "Teams Audio Conferencing",
    "AWS Cloud Server",
    "Keeper Enterprise Password Manager" }

CanonicalIntegricomLine(description) ==
  LET rule == KeywordRule(Lower(NormalizeIntegricomText(description)))
  IN  IF rule # None THEN rule ELSE NormalizeIntegricomText(description)

\* An allocation row.
AllocationRow(source_file, branch, license, amount) ==
  [ source_file |-> source_file, branch |-> branch, license |-> license,
    amount |-> amount ]

(***************************************************************************)
(* parse_adobe_csv                                                         *)
(***************************************************************************)
\* One product token of a user whose profile was found.
ParseAdobeToken(acc, branch, token, canonical, per_license_cost) ==
  IF canonical = None
    THEN [ acc EXCEPT
             !.warnings =
               IF token \notin acc.warned_unknown_product
                 THEN Append(@, [ kind |-> "unrecognized_product", name |-> token ])
                 ELSE @,
             !.warned_unknown_product = @ \cup { token } ]
  ELSE IF canonical \notin DOMAIN per_license_cost
    THEN [ acc EXCEPT
             !.warnings =
               IF canonical \notin acc.warned_unknown_product
                 THEN Append(@, [ kind |-> "no_price", name |-> canonical ])
                 ELSE @,
             !.warned_unknown_product = @ \cup { canonical } ]
  ELSE [ acc EXCEPT
           !.rows = Append(@, AllocationRow("users.csv", branch, canonical,
                                            per_license_cost[canonical])) ]

RECURSIVE ParseAdobeTokens(_, _, _, _)
ParseAdobeTokens(acc, branch, products, per_license_cost) ==
  IF products = << >>
    THEN acc
    ELSE ParseAdobeTokens(
           ParseAdobeToken(acc, branch, Head(products),
                           CanonicalAdobeProduct(Head(products)),
                           per_license_cost),
           branch, Tail(products), per_license_cost)

\* "profile is None": the user is skipped and named once in the warnings.
ParseAdobeMissingUser(acc, email) ==
  [ acc EXCEPT
      !.warnings =
        IF email \notin acc.warned_missing_user
          THEN Append(@, [ kind |-> "missing_user", name |-> email ])
          ELSE @,
      !.warned_missing_user = @ \cup { email } ]

\* The body of "for user in users"; the directory is read under user.email.
ParseAdobeUser(acc, user, user_directory, per_license_cost) ==
  IF user.products = << >>
    THEN acc
  ELSE IF user.email \notin DOMAIN user_directory
    THEN ParseAdobeMissingUser(acc, user.email)
  ELSE ParseAdobeTokens(
         acc,
         StrOr(Strip(user_directory[user.email].branch), ADOBE_HOME_OFFICE),
         user.products, per_license_cost)

RECURSIVE ParseAdobeUsers(_, _, _, _)
ParseAdobeUsers(acc, users, user_directory, per_license_cost) ==
  IF users = << >>
    THEN acc
    ELSE ParseAdobeUsers(
           ParseAdobeUser(acc, Head(users), user_directory, per_license_cost),
           Tail(users), user_directory, per_license_cost)

ParseStart ==
  [ rows |-> << >>, warnings |-> << >>, warned_missing_user |-> { },
    warned_unknown_product |-> { } ]

\* ParseResult(filename=filename, rows=rows, rows_skipped=0, warnings=warnings)
ParseResult(acc) ==
  [ filename |-> "users.csv", rows |-> acc.rows, rows_skipped |-> 0,
    warnings |-> acc.warnings ]

ParseAdobeCsv(users, user_directory, per_license_cost) ==
  ParseResult(ParseAdobeUsers(ParseStart, users, user_directory,
                              per_license_cost))

(***************************************************************************)
(* build_adobe_user_allocations                                            *)
(***************************************************************************)
\* "if email not in user_rows_map: user_rows_map[email] = {...}" followed by
\* "if branch and not row_entry['branch']: row_entry['branch'] = branch".
AdobeRowEntry(user_rows_map, email, branch) ==
  IF email \notin DOMAIN user_rows_map
    THEN [ email |-> email, branch |-> branch, licenses |-> << >>,
           user_total |-> 0 ]
  ELSE IF branch # "" /\ user_rows_map[email].branch = ""
    THEN [ user_rows_map[email] EXCEPT !.branch = branch ]
  ELSE user_rows_map[email]

AdobeSeedUser(acc, email, branch) ==
  [ acc EXCEPT
      !.user_rows_map =
        [ e \in DOMAIN @ \cup { email } |->
            IF e = email THEN AdobeRowEntry(@, email, branch) ELSE @[e] ] ]

\* Variant: every occurrence of an unknown token is reported.
AdobeUnknownToken_WarnsEach(acc, token) ==
  [ acc EXCEPT
      !.warnings = Append(@, [ kind |-> "unrecognized_product",
                               name |-> token ]) ]

\* "if canonical is None: ...; continue"
AdobeUnknownToken(acc, token) ==
  [ acc EXCEPT
      !.warnings =
        IF token \notin acc.warned_unknown_product
          THEN Append(@, [ kind |-> "unrecognized_product", name |-> token ])
          ELSE @,
      !.warned_unknown_product = @ \cup { token } ]

\* One product token of one user.
AdobeToken(acc, email, source_file, token, canonical, per_license_cost) ==
  IF canonical = None
    THEN AdobeUnknownToken(acc, token)
  ELSE IF canonical \notin DOMAIN per_license_cost
    THEN [ acc EXCEPT
             !.user_rows_map[email].licenses =
               IF canonical \in Range(@) THEN @ ELSE Append(@, canonical),
             !.warnings =
               IF canonical \notin acc.warned_missing_cost
                 THEN Append(@, [ kind |-> "no_price", name |-> canonical ])
                 ELSE @,
             !.warned_missing_cost = @ \cup { canonical } ]
  ELSE [ acc EXCEPT
           !.user_rows_map[email].licenses =
             IF canonical \in Range(@) THEN @ ELSE Append(@, canonical),
           !.user_rows_map[email].user_total = @ + per_license_cost[canonical],
           !.line_rows =
             IF acc.user_rows_map[email].branch # ""
               THEN Append(@, AllocationRow(source_file,
                                            acc.user_rows_map[email].branch,
                                            canonical,
                                            per_license_cost[canonical]))
               ELSE @ ]

RECURSIVE AdobeTokens(_, _, _, _, _)
AdobeTokens(acc, email, source_file, products, per_license_cost) ==
  IF products = << >>
    THEN acc
    ELSE AdobeTokens(
           AdobeToken(acc, email, source_file, Head(products),
                      CanonicalAdobeProduct(Head(products)), per_license_cost),
           email, source_file, Tail(products), per_license_cost)

\* Variant: the email is listed at every export row of the user.
AdobeUnresolved_Repeats(acc, email) ==
  IF acc.user_rows_map[email].branch = ""
    THEN [ acc EXCEPT !.unresolved_emails = Append(@, email) ]
    ELSE acc

\* "if not row_entry['branch'] and email not in unresolved_emails"
AdobeUnresolved(acc, email) ==
  IF acc.user_rows_map[email].branch = ""
     /\ email \notin Range(acc.unresolved_emails)
    THEN [ acc EXCEPT !.unresolved_emails = Append(@, email) ]
    ELSE acc

\* The body of "for user in users" for a user with a non-empty email; branch
\* is "(profile.get('branch') if profile else '') or ''", taken as stored.
AdobeUserWith(acc, user, email, branch, per_license_cost) ==
  AdobeUnresolved(
    AdobeTokens(AdobeSeedUser(acc, email, branch), email, user.source_file,
                user.products, per_license_cost),
    email)

AdobeUser(acc, user, user_directory, per_license_cost) ==
  IF NormalizeEmail(user.email) = ""
    THEN acc
    ELSE AdobeUserWith(acc, user, NormalizeEmail(user.email),
                       ProfileBranch(user_directory, NormalizeEmail(user.email)),
                       per_license_cost)

RECURSIVE AdobeUsers(_, _, _, _)
AdobeUsers(acc, users, user_directory, per_license_cost) ==
  IF users = << >>
    THEN acc
    ELSE AdobeUsers(AdobeUser(acc, Head(users), user_directory, per_license_cost),
                    Tail(users), user_directory, per_license_cost)

AdobeStart ==
  [ line_rows |-> << >>, warnings |-> << >>, unresolved_emails |-> << >>,
    warned_unknown_product |-> { }, warned_missing_cost |-> { },
    user_rows_map |-> << >> ]

\* The tuple the function returns.
AdobeResult(acc) ==
  [ line_rows |-> acc.line_rows,
    user_rows |->
      [ e \in DOMAIN acc.user_rows_map |->
          [ acc.user_rows_map[e] EXCEPT !.user_total = Quantize(@) ] ],
    warnings |-> acc.warnings,
    unresolved_emails |-> acc.unresolved_emails ]

BuildAdobeUserAllocations(users, user_directory, per_license_cost) ==
  AdobeResult(AdobeUsers(AdobeStart, users, user_directory, per_license_cost))

(***************************************************************************)
(* build_integricom_support_allocations                                    *)
(***************************************************************************)
\* The first known branch other than Home Office whose lower-cased name
\* occurs in the lower-cased summary, or None.
RECURSIVE FirstBranchIn(_, _)
FirstBranchIn(branches, summary_lower) ==
  IF branches = << >> THEN None
  ELSE IF Head(branches) # INTEGRICOM_HOME_OFFICE
          /\ Contains(Lower(Head(branches)), summary_lower)
    THEN Head(branches)
  ELSE FirstBranchIn(Tail(branches), summary_lower)

InferredAs(found) ==
  IF found # None
    THEN [ branch |-> found, confidence |-> "high" ]
    ELSE [ branch |-> INTEGRICOM_HOME_OFFICE, confidence |-> "low" ]

InferIntegricomSupportBranch(charge_summary) ==
  InferredAs(FirstBranchIn(INTEGRICOM_KNOWN_BRANCHES, Lower(charge_summary)))

\* updates_by_key: a later item for a row key replaces an earlier one.
RECURSIVE UpdatesByKey(_, _)
UpdatesByKey(support_updates, map) ==
  IF support_updates = << >> THEN map
  ELSE IF Head(support_updates).row_key = BlankLineKey
    THEN UpdatesByKey(Tail(support_updates), map)
  ELSE UpdatesByKey(
         Tail(support_updates),
         [ k \in DOMAIN map \cup { Head(support_updates).row_key } |->
             IF k = Head(support_updates).row_key
               THEN Strip(Head(support_updates).branch)
               ELSE map[k] ])

\* Variant: an update does not clear the review flag.
SupportRow_KeepsReview(block, inferred, updates_by_key) ==
  [ row_key |-> block.row_key,
    charge_summary |-> block.charge_summary,
    amount |-> block.amount,
    branch |-> IF block.row_key \in DOMAIN updates_by_key
                 THEN StrOr(updates_by_key[block.row_key], inferred.branch)
                 ELSE inferred.branch,
    confidence |-> IF block.row_key \in DOMAIN updates_by_key
                     THEN "user" ELSE inferred.confidence,
    needs_review |-> inferred.confidence # "high" ]

\* The support row and the allocation row of one block.
SupportRow(block, inferred, updates_by_key) ==
  [ row_key |-> block.row_key,
    charge_summary |-> block.charge_summary,
    amount |-> block.amount,
    branch |-> IF block.row_key \in DOMAIN updates_by_key
                 THEN StrOr(updates_by_key[block.row_key], inferred.branch)
                 ELSE inferred.branch,
    confidence |-> IF block.row_key \in DOMAIN updates_by_key
                     THEN "user" ELSE inferred.confidence,
    needs_review |-> inferred.confidence # "high"
                     /\ block.row_key \notin DOMAIN updates_by_key ]

\* f"Support: {block.charge_summary}"
SupportLicense(charge_summary) == << "Support: ", charge_summary >>

SupportLineRow(support_row) ==
  AllocationRow("invoice", support_row.branch,
                SupportLicense(support_row.charge_summary), support_row.amount)

SupportRows(blocks, updates_by_key) ==
  [ i \in 1..Len(blocks) |->
      SupportRow(blocks[i], InferIntegricomSupportBranch(blocks[i].charge_summary),
                 updates_by_key) ]

\* "if unresolved_reviews: warnings.append(...)"
SupportWarnings(unresolved_reviews) ==
  IF unresolved_reviews # 0
    THEN << [ kind |-> "low_confidence", name |-> "support",
              count |-> unresolved_reviews ] >>
    ELSE << >>

\* (not a.needs_review, a.charge_summary) < (not b.needs_review, ...)
SupportRowLess(a, b) ==
  \/ a.needs_review /\ ~b.needs_review
  \/ a.needs_review = b.needs_review
       /\ StrLess(a.charge_summary, b.charge_summary)

RECURSIVE SupportInsert(_, _)
SupportInsert(sorted, row) ==
  IF sorted = << >> THEN << row >>
  ELSE IF SupportRowLess(row, Head(sorted))
    THEN << row >> \o sorted
  ELSE << Head(sorted) >> \o SupportInsert(Tail(sorted), row)

\* support_rows.sort(key=lambda row: (not row["needs_review"],
\* row["charge_summary"])): a stable sort.
RECURSIVE SupportSorted(_, _)
SupportSorted(support_rows, sorted) ==
  IF support_rows = << >>
    THEN sorted
    ELSE SupportSorted(Tail(support_rows),
                       SupportInsert(sorted, Head(support_rows)))

\* line_rows in block order, support_rows sorted.
SupportResult(support_rows) ==
  [ line_rows |-> [ i \in 1..Len(support_rows) |-> SupportLineRow(support_rows[i]) ],
    support_rows |-> SupportSorted(support_rows, << >>),
    warnings |->
      SupportWarnings(Cardinality({ i \in 1..Len(support_rows) :
                                      support_rows[i].needs_review })) ]

BuildIntegricomSupportAllocations(blocks, support_updates) ==
  SupportResult(SupportRows(blocks, UpdatesByKey(support_updates, << >>)))

(***************************************************************************)
(* build_breakdown                                                         *)
(***************************************************************************)
\* (branch, license) < (branch', license') on tuples of strings.
KeyLess(a, b) == StrLess(a[1], b[1]) \/ (a[1] = b[1] /\ StrLess(a[2], b[2]))

\* float(Decimal) of an amount in whole cents.  A double determines every
\* decimal of at most 15 significant digits, so the float is represented by
\* the decimal it was made from; the amounts of the model have at most 8.
Float(m) == m

\* Variant: each amount is rounded to cents as it is added.
BreakdownAdd_Rounded(grouped, key, amount) ==
  IF \E i \in 1..Len(grouped) : grouped[i].key = key
    THEN [ i \in 1..Len(grouped) |->
             IF grouped[i].key = key
               THEN [ grouped[i] EXCEPT !.total = @ + Quantize(amount) ]
               ELSE grouped[i] ]
    ELSE Append(grouped, [ key |-> key, total |-> Quantize(amount) ])

\* grouped[key] += row["amount"] on the insertion-ordered dict, held as the
\* sequence of its items.
BreakdownAdd(grouped, key, amount) ==
  IF \E i \in 1..Len(grouped) : grouped[i].key = key
    THEN [ i \in 1..Len(grouped) |->
             IF grouped[i].key = key
               THEN [ grouped[i] EXCEPT !.total = @ + amount ]
               ELSE grouped[i] ]
    ELSE Append(grouped, [ key |-> key, total |-> amount ])

RECURSIVE BreakdownGroup(_, _)
BreakdownGroup(rows, grouped) ==
  IF rows = << >>
    THEN grouped
    ELSE BreakdownGroup(Tail(rows),
                        BreakdownAdd(grouped,
                                     << Head(rows).branch, Head(rows).license >>,
                                     Head(rows).amount))

\* One insertion of the stable sort behind sorted(grouped.items()).
RECURSIVE InsertItem(_, _)
InsertItem(sorted, item) ==
  IF sorted = << >> THEN << item >>
  ELSE IF KeyLess(item.key, Head(sorted).key)
    THEN << item >> \o sorted
  ELSE << Head(sorted) >> \o InsertItem(Tail(sorted), item)

RECURSIVE SortedItems(_, _)
SortedItems(items, sorted) ==
  IF items = << >>
    THEN sorted
    ELSE SortedItems(Tail(items), InsertItem(sorted, Head(items)))

SummaryRow(item) ==
  [ branch |-> item.key[1], license |-> item.key[2],
    total_amount |-> Float(Quantize(item.total)) ]

SummaryOf(sorted) == [ i \in 1..Len(sorted) |-> SummaryRow(sorted[i]) ]

BuildBreakdown(rows) ==
  SummaryOf(SortedItems(BreakdownGroup(rows, << >>), << >>))

(***************************************************************************)
(* apply_home_office_adjustment                                            *)
(***************************************************************************)
ADOBE_ADJUSTMENT_LICENSE == "Adobe Invoice Adjustment"

INTEGRICOM_ADJUSTMENT_LICENSE == "Integricom Invoice Adjustment"

HEXNODE_DEFAULT_LICENSE == "Hexnode UEM Cloud Pro Edition"

HEXNODE_HOME_OFFICE == "Home Office"

\* The index of the first row of (home_office_name, license_name), or 0:
\* the loop that ends in "updated_row = row; break".
HomeOfficeRowIndex(updated, home_office_name, license_name) ==
  IF \E i \in 1..Len(updated) :
       updated[i].branch = home_office_name /\ updated[i].license = license_name
    THEN CHOOSE i \in 1..Len(updated) :
           /\ updated[i].branch = home_office_name
           /\ updated[i].license = license_name
           /\ \A j \in 1..(i - 1) :
                ~(updated[j].branch = home_office_name
                  /\ updated[j].license = license_name)
    ELSE 0

\* "if updated_row is None: updated.append({... 'total_amount': 0.0})"
WithHomeOfficeRow(updated, index, home_office_name, license_name) ==
  IF index = 0
    THEN Append(updated, [ branch |-> home_office_name,
                           license |-> license_name, total_amount |-> 0 ])
    ELSE updated

\* Variant: the adjustment reaches every row of the home office.
AdjustedRows_EveryHomeRow(updated, index, adjustment) ==
  [ i \in 1..Len(updated) |->
      IF updated[i].branch = updated[index].branch
        THEN [ updated[i] EXCEPT
                 !.total_amount = Float(Quantize(@ + adjustment)) ]
        ELSE updated[i] ]

\* updated_row["total_amount"] = float((current + adjustment).quantize(0.01))
AdjustedRows(updated, index, adjustment) ==
  [ updated EXCEPT ![index].total_amount = Float(Quantize(@ + adjustment)) ]

\* updated.sort(key=lambda item: (item["branch"], item["license"]))
SortedRows(updated) ==
  LET sorted ==
        SortedItems([ i \in 1..Len(updated) |->
                        [ key |-> << updated[i].branch, updated[i].license >>,
                          row |-> updated[i] ] ],
                    << >>)
  IN  [ i \in 1..Len(sorted) |-> sorted[i].row ]

AdjustAt(updated, index, adjustment) ==
  SortedRows(AdjustedRows(updated,
                          IF index = 0 THEN Len(updated) ELSE index,
                          adjustment))

apply_home_office_adjustment(summary_rows, adjustment, license_name, home_office_name) ==
  IF adjustment = 0
    THEN summary_rows
    ELSE AdjustAt(
           WithHomeOfficeRow(
             summary_rows,
             HomeOfficeRowIndex(summary_rows, home_office_name, license_name),
             home_office_name, license_name),
           HomeOfficeRowIndex(summary_rows, home_office_name, license_name),
           adjustment)

(***************************************************************************)
(* The seat-license export parsers.  A license or product field is held as *)
(* the sequence of its pieces: names, delimiters ("+", ",") and blanks.    *)
(* A row is the dict csv.DictReader yields, its columns already matched.   *)
(***************************************************************************)
INTEGRICOM_BRANCH_ALIASES ==
  ("" :> INTEGRICOM_HOME_OFFICE) @@ ("Corporate" :> INTEGRICOM_HOME_OFFICE)
  @@ ("Process Smart" :> INTEGRICOM_HOME_OFFICE)

\* _normalize_integricom_branch
NormalizeIntegricomBranch(office) ==
  IF Strip(office) \in DOMAIN INTEGRICOM_BRANCH_ALIASES
    THEN INTEGRICOM_BRANCH_ALIASES[Strip(office)]
    ELSE StrOr(Strip(office), INTEGRICOM_HOME_OFFICE)

\* str.strip() on a field.
RECURSIVE StripPieces(_)
StripPieces(field) ==
  IF field = << >> THEN field
  ELSE IF Head(field) = " " THEN StripPieces(Tail(field))
  ELSE IF field[Len(field)] = " "
    THEN StripPieces(SubSeq(field, 1, Len(field) - 1))
  ELSE field

\* str.split(delimiter): parts is the list so far, its last entry the part
\* being read.
RECURSIVE SplitPieces(_, _, _)
SplitPieces(field, delimiter, parts) ==
  IF field = << >> THEN parts
  ELSE IF Head(field) = delimiter
    THEN SplitPieces(Tail(field), delimiter, Append(parts, << >>))
  ELSE SplitPieces(Tail(field), delimiter,
                   [ parts EXCEPT ![Len(parts)] = Append(@, Head(field)) ])

\* [token.strip() for token in raw.split(delimiter) if token.strip()]
StrippedTokens(parts) ==
  [ i \in 1..Len(SelectSeq(parts, LAMBDA t : StripPieces(t) # << >>)) |->
      StripPieces(SelectSeq(parts, LAMBDA t : StripPieces(t) # << >>)[i]) ]

LicenseTokens(field, delimiter) ==
  StrippedTokens(SplitPieces(field, delimiter, << << >> >>))

\* licenses_raw.lower() == "unlicensed"
IsUnlicensed(licenses_raw) ==
  Len(licenses_raw) = 1 /\ Lower(licenses_raw[1]) = "unlicensed"

\* Variant: every skip is reported.
SkipRow_Warns(acc) ==
  [ acc EXCEPT !.rows_skipped = @ + 1,
               !.warnings =
                 Append(@, [ kind |-> "skipped",
                             line_number |->
                               acc.rows_skipped + Len(acc.users) + 2 ]) ]

\* "rows_skipped += 1; continue"
SkipRow(acc) == [ acc EXCEPT !.rows_skipped = @ + 1 ]

SkipRowWarning(acc, line_number) ==
  [ acc EXCEPT !.rows_skipped = @ + 1,
               !.warnings = Append(@, [ kind |-> "missing_email",
                                        line_number |-> line_number ]) ]

IntegricomExportUser(email, office, tokens) ==
  [ source_file |-> "users.csv", email |-> email, office |-> office,
    default_branch |-> NormalizeIntegricomBranch(office), licenses |-> tokens ]

\* The body of the row loop of parse_integricom_export_csv.
IntegricomExportRow(acc, row, line_number, email, licenses_raw) ==
  IF email = "" THEN SkipRowWarning(acc, line_number)
  ELSE IF Contains("#ext#", email) THEN SkipRow(acc)
  ELSE IF licenses_raw = << >> \/ IsUnlicensed(licenses_raw) THEN SkipRow(acc)
  ELSE IF LicenseTokens(licenses_raw, "+") = << >> THEN SkipRow(acc)
  ELSE [ acc EXCEPT !.users =
           Append(@, IntegricomExportUser(email, Strip(row.office),
                                          LicenseTokens(licenses_raw, "+"))) ]

AdobeExportUser(email, tokens) ==
  [ source_file |-> "users.csv", email |-> email, products |-> tokens ]

\* The body of the row loop of parse_adobe_export_csv.
AdobeExportRow(acc, row, line_number, email, raw_products) ==
  IF email = "" THEN SkipRowWarning(acc, line_number)
  ELSE [ acc EXCEPT !.users =
           Append(@, AdobeExportUser(email,
                                     LicenseTokens(raw_products, ","))) ]

ExportStart ==
  [ filename |-> "users.csv", users |-> << >>, rows_skipped |-> 0,
    warnings |-> << >> ]

\* "for line_number, row in enumerate(reader, start=2)"
RECURSIVE IntegricomExportRows(_, _, _)
IntegricomExportRows(acc, csv_rows, line_number) ==
  IF line_number - 1 > Len(csv_rows)
    THEN acc
    ELSE IntegricomExportRows(
           IntegricomExportRow(
             acc, csv_rows[line_number - 1], line_number,
             NormalizeEmail(csv_rows[line_number - 1].email),
             StripPieces(csv_rows[line_number - 1].licenses)),
           csv_rows, line_number + 1)

parse_integricom_export_csv(csv_rows) ==
  IntegricomExportRows(ExportStart, csv_rows, 2)

RECURSIVE AdobeExportRows(_, _, _)
AdobeExportRows(acc, csv_rows, line_number) ==
  IF line_number - 1 > Len(csv_rows)
    THEN acc
    ELSE AdobeExportRows(
           AdobeExportRow(
             acc, csv_rows[line_number - 1], line_number,
             NormalizeEmail(csv_rows[line_number - 1].email),
             StripPieces(csv_rows[line_number - 1].licenses)),
           csv_rows, line_number + 1)

parse_adobe_export_csv(csv_rows) ==
  AdobeExportRows(ExportStart, csv_rows, 2)

(***************************************************************************)
(* The /api/analyze endpoint (app/main.py), up to the handler it hands the *)
(* request to.  csv_files is None (not given) or the list of the uploads'  *)
(* filenames.                                                              *)
(***************************************************************************)
NoCsvFiles == [ given |-> FALSE, files |-> << >> ]

CsvFiles(files) == [ given |-> TRUE, files |-> files ]

HttpError(status_code, detail) ==
  [ status_code |-> status_code, detail |-> detail, handler |-> "" ]

\* "return await handler(...)": the response is the handler's.
HandledBy(handler) ==
  [ status_code |-> 0, detail |-> "", handler |-> handler ]

CsvRequired == HttpError(400, "At least one CSV export file is required.")

AnalyzeVendor(vendor, uploads) ==
  IF vendor \notin { "generic", "hexnode", "adobe", "integricom",
                     "integricom_support" }
    THEN HttpError(400, "Unsupported vendor_type.")
  ELSE IF vendor = "adobe"
    THEN IF uploads = << >> THEN CsvRequired ELSE HandledBy("_analyze_adobe")
  ELSE IF vendor = "integricom"
    THEN IF uploads = << >> THEN CsvRequired
         ELSE HandledBy("_analyze_integricom")
  ELSE IF vendor = "integricom_support"
    THEN HandledBy("_analyze_integricom_support")
  ELSE IF uploads = << >> THEN CsvRequired
  ELSE HandledBy("analyze")

\* uploads = csv_files or []; vendor = vendor_type.strip().lower()
analyze(req) ==
  AnalyzeVendor(Lower(Strip(req.vendor_type)),
                IF req.csv_files.given THEN req.csv_files.files ELSE << >>)

(***************************************************************************)
(* The user directories (app/integricom_directory.py, adobe_directory.py). *)
(* A table is a function from the stored email to its row; a row keeps the *)
(* columns first_name, last_name, branch, is_active, created_at,           *)
(* updated_at and last_seen_at.  _utc_now() is a number: the seconds on    *)
(* the server's clock.                                                     *)
(***************************************************************************)
\* user.get(field) or ""
Get(user, field) ==
  IF field \in DOMAIN user THEN user[field] ELSE ""

\* UPDATE ... SET branch = 'Home Office' WHERE TRIM(COALESCE(branch, '')) = ''
InitDirectory(table) ==
  [ e \in DOMAIN table |->
      IF Strip(table[e].branch) = ""
        THEN [ table[e] EXCEPT !.branch = "Home Office" ]
        ELSE table[e] ]

\* The VALUES of the INSERT: (email, first_name, last_name, branch, 1, now,
\* now, seen) for the columns (..., is_active, created_at, updated_at,
\* last_seen_at), with seen = last_seen_at or now and no caller passing
\* last_seen_at.
InsertedRow(user, now) ==
  [ first_name |-> Strip(Get(user, "first_name")),
    last_name |-> Strip(Get(user, "last_name")),
    branch |-> Strip(Get(user, "branch")), is_active |-> TRUE,
    created_at |-> now, updated_at |-> now, last_seen_at |-> now ]

\* ON CONFLICT(email) DO UPDATE SET first_name=excluded.first_name,
\* last_name=..., branch=..., is_active=1, updated_at=..., last_seen_at=...
ConflictRow_Recreated(stored, excluded) ==
  excluded

ConflictRow(stored, excluded) ==
  [ excluded EXCEPT !.created_at = stored.created_at ]

\* INSERT ... ON CONFLICT(email) DO UPDATE ... for one payload item; items
\* with a blank email or a blank branch are skipped.
UpsertRow(table, user, now) ==
  IF NormalizeEmail(Get(user, "email")) = "" \/ Strip(Get(user, "branch")) = ""
    THEN table
    ELSE [ e \in DOMAIN table \cup { NormalizeEmail(user.email) } |->
             IF e # NormalizeEmail(user.email)
               THEN table[e]
               ELSE IF e \in DOMAIN table
                      THEN ConflictRow(table[e], InsertedRow(user, now))
                      ELSE InsertedRow(user, now) ]

RECURSIVE UpsertRows(_, _, _)
UpsertRows(table, payload, now) ==
  IF payload = << >>
    THEN table
    ELSE UpsertRows(UpsertRow(table, Head(payload), now), Tail(payload), now)

\* upsert_integricom_users: nothing happens for an empty payload.
upsert_integricom_users(table, payload, now) ==
  IF payload = << >>
    THEN table
    ELSE UpsertRows(InitDirectory(table), payload, now)

\* upsert_adobe_users
upsert_adobe_users(table, payload, now) ==
  IF payload = << >>
    THEN table
    ELSE UpsertRows(InitDirectory(table), payload, now)

\* first_name=CASE WHEN ? <> '' THEN ? ELSE first_name END
TouchedName(stored, given) ==
  IF Strip(given) # "" THEN Strip(given) ELSE stored

\* UPDATE ... SET first_name=..., last_name=..., is_active=1, updated_at=?,
\* last_seen_at=? WHERE email=?
TouchRow(table, user, now) ==
  IF NormalizeEmail(Get(user, "email")) \in DOMAIN table \ { "" }
    THEN [ table EXCEPT ![NormalizeEmail(user.email)] =
             [ @ EXCEPT
                 !.first_name = TouchedName(@, Get(user, "first_name")),
                 !.last_name = TouchedName(@, Get(user, "last_name")),
                 !.is_active = TRUE, !.updated_at = now,
                 !.last_seen_at = now ] ]
    ELSE table

RECURSIVE TouchRows(_, _, _)
TouchRows(table, payload, now) ==
  IF payload = << >>
    THEN table
    ELSE TouchRows(TouchRow(table, Head(payload), now), Tail(payload), now)

\* touch_seen_integricom_users
touch_seen_integricom_users(table, payload, now) ==
  IF payload = << >>
    THEN table
    ELSE TouchRows(InitDirectory(table), payload, now)

\* touch_seen_users
touch_seen_users(table, payload, now) ==
  IF payload = << >>
    THEN table
    ELSE TouchRows(InitDirectory(table), payload, now)

\* list_integricom_users / list_adobe_users on the table as the call's own
\* init step leaves it: rows keyed by normalized email, blank emails left out.
ListUsers(table) ==
  [ e \in { NormalizeEmail(k) : k \in DOMAIN table } \ { "" } |->
      table[CHOOSE k \in DOMAIN table : NormalizeEmail(k) = e] ]

\* _directory_to_profile_map
DirectoryToProfileMap(directory) ==
  [ e \in DOMAIN directory |-> [ branch |-> directory[e].branch ] ]

\* The submitted corrections that are written: "for item in
\* submitted_updates if item['branch']".
CorrectionsToWrite(submitted_updates) ==
  SelectSeq(submitted_updates, LAMBDA item : item.branch # "")

\* seed_users of _analyze_integricom: the export users whose email is not in
\* the listing, with their default branch.
SeedOf(absent) ==
  [ i \in 1..Len(absent) |->
      [ email |-> absent[i].email, branch |-> absent[i].default_branch ] ]

SeedUsers(export_users, directory) ==
  SeedOf(SelectSeq(export_users,
                   LAMBDA user : user.email \notin DOMAIN directory))

\* Variant of the gate: only unresolved emails hold a pass back.
NeedsMoreInput_EmailsOnly(unresolved_emails, unresolved_branch_prompts) ==
  unresolved_emails # << >>

\* "if needs_user_enrichment or needs_branch_assignment" (for Adobe the
\* prompt list is empty: "if unresolved_emails").
NeedsMoreInput(unresolved_emails, unresolved_branch_prompts) ==
  unresolved_emails # << >> \/ unresolved_branch_prompts # << >>

(***************************************************************************)
(* State.                                                                  *)
(*   vendor_type: the vendor of the upload session, which selects the      *)
(*     allocation functions that run.                                      *)
(*   users, user_directory: the export users and the directory profile map *)
(*     of the session.                                                     *)
(*   invoice_lines: the parsed Integricom invoice lines.                   *)
(*   branch_item_updates: the correction list the caller has assembled.    *)
(*   analyzed_updates: the correction list the last pass was given.        *)
(*   allocation: what the last build_integricom_user_allocations returned. *)
(*   phase: "idle" before the first pass, "analyzed" after one.            *)
(*   per_license_cost: the Adobe invoice's price per product.              *)
(*   adobe_allocation, adobe_parsed: what build_adobe_user_allocations and *)
(*     parse_adobe_csv returned.                                           *)
(*   blocks, support_updates, support_allocation: the support invoice's    *)
(*     blocks, the submitted branch choices, and what                      *)
(*     build_integricom_support_allocations returned.                      *)
(*   rows, summarized, summary: the allocation rows collected so far, the  *)
(*     rows the last build_breakdown was given, and what it returned.      *)
(*   integricom_users, adobe_users: the directory tables.                  *)
(*   table0: the Integricom table as the sessions found it.                *)
(*   session: per upload session, the request of its current pass, the     *)
(*     position of the pass (pc), its directory listing, what its          *)
(*     allocation returned, the emails whose rows the pass inserted and    *)
(*     whether the pass has called touch_seen.                             *)
(*   passes: the number of passes started.                                 *)
(*   clock: what _utc_now() returns.                                       *)
(*   upserted: the last directory upsert: its payload, the table before    *)
(*     it, the table after its first run and how often it has run.         *)
(*   issued: per pass over an invoice, the pairs of a line's ordinal and   *)
(*     the line_key of a prompt the pass returned for that line.           *)
(*     In the rounds of one upload session: the session as each pass left  *)
(*     it.                                                                 *)
(*   text: what a reader was given: the lines of the text extracted from   *)
(*     an invoice, the blocks found in a support invoice, or the header    *)
(*     row of a CSV file.                                                  *)
(*   scanner: the local variables of the reader, as far as it has read.    *)
(***************************************************************************)
VARIABLES vendor_type, users, user_directory, invoice_lines,
          branch_item_updates, analyzed_updates, allocation, phase,
          per_license_cost, adobe_allocation, adobe_parsed,
          blocks, support_updates, support_allocation,
          rows, summarized, summary, adjusted,
          integricom_users, adobe_users, table0, session, passes,
          csv_rows, export_parse, api_request, api_response,
          clock, upserted, issued, text, scanner

allocVars == << users, user_directory, invoice_lines, branch_item_updates,
                analyzed_updates, allocation, phase >>

adobeVars == << per_license_cost, adobe_allocation, adobe_parsed >>

supportVars == << blocks, support_updates, support_allocation >>

breakdownVars == << rows, summarized, summary, adjusted >>

sessVars == << integricom_users, adobe_users, table0, session, passes >>

parseVars == << csv_rows, export_parse >>

httpVars == << api_request, api_response >>

directoryVars == << clock, upserted >>

historyVars == << issued >>

readVars == << text, scanner >>

vars ==
  << vendor_type, allocVars, adobeVars, supportVars, breakdownVars, sessVars,
     parseVars, httpVars, directoryVars, historyVars, readVars >>

NoAllocation ==
  [ line_rows |-> << >>, user_rows |-> << >>, non_user_rows_raw |-> << >>,
    warnings |-> << >>, unresolved_emails |-> << >>,
    unresolved_branch_prompts |-> << >> ]

NoAdobeAllocation ==
  [ line_rows |-> << >>, user_rows |-> << >>, warnings |-> << >>,
    unresolved_emails |-> << >> ]

\* No file parsed yet.
NoParse ==
  [ filename |-> "", rows |-> << >>, rows_skipped |-> 0, warnings |-> << >> ]

NoSupportAllocation ==
  [ line_rows |-> << >>, support_rows |-> << >>, warnings |-> << >> ]

\* No Adobe upload and no support invoice in the session.
AdobeIdle ==
  /\ per_license_cost = << >>
  /\ adobe_allocation = NoAdobeAllocation
  /\ adobe_parsed = NoParse

SupportIdle ==
  /\ blocks = << >>
  /\ support_updates = << >>
  /\ support_allocation = NoSupportAllocation

\* No rows collected and nothing summarized.
\* No request received, no response given.
NoRequest ==
  [ vendor_type |-> "", csv_files |-> NoCsvFiles, invoice_file |-> None ]

NoResponse == [ status_code |-> 0, detail |-> "", handler |-> "" ]

\* No export parsed.
NoExportParse ==
  [ filename |-> "", users |-> << >>, rows_skipped |-> 0, warnings |-> << >> ]

NoUpsert ==
  [ payload |-> << >>, before |-> << >>, once |-> << >>, runs |-> 0 ]

\* Nothing to read.
NoScanner == [ index |-> 0 ]

ReadIdle ==
  /\ text = << >>
  /\ scanner = NoScanner

DirectoryIdle ==
  /\ clock = 1
  /\ upserted = NoUpsert

ParseIdle ==
  /\ csv_rows = << >>
  /\ export_parse = NoExportParse
  /\ api_request = NoRequest
  /\ api_response = NoResponse

\* No adjustment applied.
NoAdjustment ==
  [ applied |-> FALSE, license_name |-> "", adjustment |-> 0,
    summary |-> << >> ]

BreakdownIdle ==
  /\ rows = << >>
  /\ summarized = << >>
  /\ summary = << >>
  /\ adjusted = NoAdjustment

Sessions == { "s1", "s2" }

IdleSession ==
  [ pc |-> "idle", pass_no |-> 0, vendor |-> "", export_users |-> << >>,
    invoice_lines |-> << >>, per_license_cost |-> << >>,
    submitted_updates |-> << >>, submitted_branch_item_updates |-> << >>,
    directory |-> << >>, unresolved_emails |-> << >>,
    unresolved_branch_prompts |-> << >>, inserted |-> { }, touched |-> FALSE ]

\* No session has started and the directories are empty.
SessionsIdle ==
  /\ integricom_users = << >>
  /\ adobe_users = << >>
  /\ table0 = << >>
  /\ session = [ s \in Sessions |-> IdleSession ]
  /\ passes = 0

IntegricomIdle ==
  /\ invoice_lines = << >>
  /\ branch_item_updates = << >>
  /\ analyzed_updates = << >>
  /\ allocation = NoAllocation

(***************************************************************************)
(* Input universes.                                                        *)
(***************************************************************************)
UnitPrices == { 0, 10000 }

\* The branch list a sequentially distributed charge is spread over.
SequenceTemplate(canonical_name) ==
  CASE canonical_name = "NetWatch360 Managed Firewall" ->
         INTEGRICOM_DISTRICT_BRANCHES
    [] canonical_name = "NetWatch360 Managed Internet" ->
         INTEGRICOM_MANAGED_INTERNET_BRANCHES
    [] canonical_name = "Firewall Security Subscription District Office" ->
         FIREWALL_DISTRICT_OFFICE_BRANCHES
    [] OTHER -> << >>

SequentialNames ==
  { "NetWatch360 Managed Firewall", "NetWatch360 Managed Internet",
    "Firewall Security Subscription District Office" }

\* The names of first lines; the third sequential charge is the companion
\* line below.
FirstLineNames ==
  { "NetWatch360 Managed Firewall", "NetWatch360 Managed Internet" }

\* Quantities around the template length N: none, a fractional one, N, and
\* N+1 .. N+MaxExtra.
SequentialQuantities(canonical_name) ==
  LET N == Len(SequenceTemplate(canonical_name))
  IN  { 0, 2500 } \cup { (N + k) * 1000 : k \in 0..MaxExtra }

\* Amounts that agree with quantity x unit price, and amounts that do not.
LineAmounts(quantity, unit_price) ==
  { IntOf(quantity) * unit_price, IntOf(quantity) * unit_price + 5000 }

LinesNamed(names, Quantities(_)) ==
  UNION { UNION { UNION { { [ canonical_name |-> n, quantity |-> q,
                              unit_price |-> u, amount |-> a ] :
                            a \in LineAmounts(q, u) } :
                          u \in UnitPrices } :
                  q \in Quantities(n) } :
          n \in names }

SequentialLines == LinesNamed(FirstLineNames, SequentialQuantities)

\* The line that may follow the first line of an invoice.
CompanionLines ==
  { [ canonical_name |-> "Firewall Security Subscription District Office",
      quantity |-> 12000, unit_price |-> 10000, amount |-> 125000 ] }

\* Invoices of 1..MaxLines lines: a first line drawn from lines, then
\* companion lines.
InvoicesOf(lines) ==
  UNION { { << first >> \o rest : first \in lines,
                                 rest \in [1..(k - 1) -> CompanionLines] } :
          k \in 1..MaxLines }

SubmittedBranches ==
  { "", "Canton", "Sugar Hill", " Grayson", "Elsewhere" }

\* Updates a caller can send for the first line of the invoice at hand, and
\* two malformed ones.
BranchItemUpdates ==
  { [ line_key |-> LineKey(1, invoice_lines[1].canonical_name),
      prompt_index |-> p, branch |-> b ] :
      p \in 1..MaxExtra, b \in SubmittedBranches }
  \cup { [ line_key |-> BlankLineKey, prompt_index |-> 1, branch |-> "Canton" ],
         [ line_key |-> LineKey(1, invoice_lines[1].canonical_name),
           prompt_index |-> 0, branch |-> "Canton" ] }

\* The caller lists its answers in prompt order; an index may repeat.
InPromptOrder(updates, update) ==
  IF Len(updates) = 0 THEN TRUE
  ELSE updates[Len(updates)].prompt_index <= update.prompt_index

(***************************************************************************)
(* Allocation passes over one invoice (sequential distribution).           *)
(***************************************************************************)
InitSeq ==
  /\ vendor_type = "integricom"
  /\ AdobeIdle
  /\ SupportIdle
  /\ users = << >>
  /\ user_directory = << >>
  /\ invoice_lines \in InvoicesOf(SequentialLines)
  /\ branch_item_updates = << >>
  /\ analyzed_updates = << >>
  /\ allocation = NoAllocation
  /\ phase = "idle"
  /\ BreakdownIdle
  /\ SessionsIdle
  /\ ParseIdle
  /\ issued = << >>
  /\ ReadIdle
  /\ DirectoryIdle

\* The caller adds one correction to the list it will send; the response
\* to the previous list is discarded.
SubmitBranchItem ==
  /\ vendor_type = "integricom"
  /\ Len(branch_item_updates) < MaxUpdates
  /\ \E update \in BranchItemUpdates :
       /\ InPromptOrder(branch_item_updates, update)
       /\ branch_item_updates' = Append(branch_item_updates, update)
  /\ analyzed_updates' = << >>
  /\ allocation' = NoAllocation
  /\ phase' = "idle"
  /\ UNCHANGED << vendor_type, historyVars, readVars, directoryVars, httpVars, parseVars, breakdownVars, sessVars, users, user_directory,
                  invoice_lines, adobeVars, supportVars >>

\* One call of build_integricom_user_allocations.
AnalyzePass ==
  /\ vendor_type = "integricom"
  /\ allocation' = BuildIntegricomUserAllocations(users, user_directory,
                                                  invoice_lines,
                                                  branch_item_updates)
  /\ analyzed_updates' = branch_item_updates
  /\ phase' = "analyzed"
  /\ UNCHANGED << vendor_type, historyVars, readVars, directoryVars, httpVars, parseVars, breakdownVars, sessVars, users, user_directory, invoice_lines,
                  branch_item_updates, adobeVars, supportVars >>

NextSeq == SubmitBranchItem \/ AnalyzePass

SpecSeq == InitSeq /\ [][NextSeq]_vars

(***************************************************************************)
(* Repeated passes over one invoice of several lines, with export users    *)
(* and a directory, the caller answering the first prompt of a line after  *)
(* each pass.                                                              *)
(***************************************************************************)
MaxKeyLines == 2

MaxAnswers == 1

\* Lines one unit over their template, and a line charged per user.
KeyedLines ==
  { [ canonical_name |-> n,
      quantity |-> (Len(SequenceTemplate(n)) + 1) * 1000,
      unit_price |-> 10000,
      amount |-> (Len(SequenceTemplate(n)) + 1) * 10000 ] :
      n \in FirstLineNames }
  \cup { [ canonical_name |-> "Workstation", quantity |-> 1000,
           unit_price |-> 10000, amount |-> 10000 ] }

KeyedInvoices ==
  UNION { [ 1..k -> KeyedLines ] : k \in 1..MaxKeyLines }

KeyedUsers ==
  { << >>,
    << [ email |-> "ann@x.com", default_branch |-> "Acworth",
         licenses |-> << INTEGRICOM_LICENSE_BP >> ] >> }

KeyedDirectories ==
  { << >>, ("ann@x.com" :> [ branch |-> "Canton" ]) }

\* The answers a caller can give to the prompts of the invoice at hand.
KeyedUpdates ==
  { [ line_key |-> LineKey(i, invoice_lines[i].canonical_name),
      prompt_index |-> 1, branch |-> b ] :
      i \in 1..Len(invoice_lines), b \in { "Canton", " Grayson" } }

\* The prompts the pass adds in the iteration of the i-th line.
PromptsOfLine(i) ==
  InvoiceLineStep(
    users, invoice_lines[i], i,
    BranchAssignmentUpdatesMap(branch_item_updates, << >>),
    LinesStart(IntegricomUserRowsLoop(users, user_directory,
                                      UsersStart).user_rows_map)
  ).unresolved_branch_prompts

IssuedByPass ==
  UNION { { << i, PromptsOfLine(i)[k].line_key >> :
              k \in DOMAIN PromptsOfLine(i) } :
          i \in 1..Len(invoice_lines) }

InitKeys ==
  /\ vendor_type = "integricom keys"
  /\ AdobeIdle
  /\ SupportIdle
  /\ users \in KeyedUsers
  /\ user_directory \in KeyedDirectories
  /\ invoice_lines \in KeyedInvoices
  /\ branch_item_updates = << >>
  /\ analyzed_updates = << >>
  /\ allocation = NoAllocation
  /\ phase = "idle"
  /\ BreakdownIdle
  /\ SessionsIdle
  /\ ParseIdle
  /\ issued = << >>
  /\ ReadIdle
  /\ DirectoryIdle

\* One call of build_integricom_user_allocations in a session that keeps
\* the invoice.
AnalyzeKeyed ==
  /\ vendor_type = "integricom keys"
  /\ phase = "idle"
  /\ allocation' = BuildIntegricomUserAllocations(users, user_directory,
                                                  invoice_lines,
                                                  branch_item_updates)
  /\ analyzed_updates' = branch_item_updates
  /\ phase' = "analyzed"
  /\ issued' = Append(issued, IssuedByPass)
  /\ UNCHANGED << vendor_type, readVars, directoryVars, httpVars, parseVars,
                  breakdownVars, sessVars, users, user_directory,
                  invoice_lines, branch_item_updates, adobeVars, supportVars >>

\* The caller answers a prompt and submits again.
SubmitKeyed ==
  /\ vendor_type = "integricom keys"
  /\ phase = "analyzed"
  /\ Len(branch_item_updates) < MaxAnswers
  /\ \E update \in KeyedUpdates :
       branch_item_updates' = Append(branch_item_updates, update)
  /\ phase' = "idle"
  /\ UNCHANGED << vendor_type, directoryVars, historyVars, readVars, httpVars,
                  parseVars, breakdownVars, sessVars, users, user_directory,
                  invoice_lines, analyzed_updates, allocation, adobeVars,
                  supportVars >>

NextKeys == AnalyzeKeyed \/ SubmitKeyed

SpecKeys == InitKeys /\ [][NextKeys]_vars

(***************************************************************************)
(* Invoice lines as parse_integricom_invoice builds them from their        *)
(* descriptions, one per keyword rule and some that no rule names, passed  *)
(* to build_integricom_user_allocations; the caller answers a prompt after *)
(* a pass.                                                                 *)
(***************************************************************************)
RuleDescriptions ==
  { "NetWatch360 Managed User/Workstation",
    "NetWatch360 Managed Firewall",
    "NetWatch360 Managed Network Device",
    "NetWatch360 Managed Internet",
    "Firewall Security Subscription, Main Office",
    "Firewall Security Subscription, District Office",
    "Firewall Security Subscription, Latest FW bought in 2025",
    "Ticketing System User License",
    "Documentation System",
    "Monthly Recurring Block",
    "Dark Web Monitoring",
    "IT Automation Tool",
    "Teams Rooms Pro",
    "NetWatch360 MAC",
    "NetWatch360 Managed Server",
    "Dropbox Business Standard",
    "Office 365 Cloud Backup",
    "DP Server Image Backup, Cloud",
    "Microsoft 365 Business Premium",
    "Power BI Pro",
    "Project Plan 3",
    "Exchange Online P1",
    "Microsoft F3",
    "Exchange Online Plan 2",
    "Teams Essentials",
    "Microsoft E5",
    "Intune",
    "Prorated M365",
    "Teams Audio Conferencing",
    "AWS Cloud Server",
    "Keeper Enterprise",
    "Keeper",
    "Monthly Block Hours",
    "Exchange Online P2",
    "Managed Firewall Security Subscription, Main Office",
    "Managed Server",
    "Business Premium",
    "Prorated M365 Intune",
    "NetWatch360  MAC Annual",
    "Unknown Widget",
    "Workstation" }

\* IntegricomInvoiceLine(description=..., canonical_name=..., ...) as the
\* invoice parser appends it.
IntegricomInvoiceLine(description, qty, price, amount) ==
  [ description |-> description,
    canonical_name |-> CanonicalIntegricomLine(description),
    quantity |-> Quantize(qty),
    unit_price |-> Quantize(price),
    amount |-> Quantize(amount) ]

\* << quantity, unit price, amount >>: a free line, amounts below, at and
\* above the split baseline, and an amount that is not quantity x price.
RuleCharges ==
  { << 1000, 0, 0 >>, << 1000, 50000, 50000 >>, << 1000, 97000, 97000 >>,
    << 2000, 75000, 150000 >>, << 1000, 10000, 15000 >> }

\* Lines one unit over their template.
OverflowLines ==
  { IntegricomInvoiceLine(d, (Len(SequenceTemplate(d)) + 1) * 1000, 10000,
                          (Len(SequenceTemplate(d)) + 1) * 10000) :
      d \in FirstLineNames }

RuleLines ==
  { IntegricomInvoiceLine(d, c[1], c[2], c[3]) :
      d \in RuleDescriptions, c \in RuleCharges }
  \cup OverflowLines

\* Invoices of one line, and of a line followed by a line over its template.
RuleInvoices ==
  { << line >> : line \in RuleLines }
  \cup { << line, over >> : line \in RuleLines, over \in OverflowLines }

\* No export user, a user holding every seat licence, and the same user
\* with the email spelled as a hand-built list may carry it.
RuleUsers ==
  { << >> }
  \cup { << [ email |-> e, default_branch |-> "",
              licenses |-> << INTEGRICOM_LICENSE_BP, INTEGRICOM_LICENSE_P1,
                              INTEGRICOM_LICENSE_P2, INTEGRICOM_LICENSE_F3 >> ] >> :
           e \in { "ann@x.com", " Ann@X.com" } }

InitRules ==
  /\ vendor_type = "integricom rules"
  /\ AdobeIdle
  /\ SupportIdle
  /\ users \in RuleUsers
  /\ user_directory \in KeyedDirectories
  /\ invoice_lines \in RuleInvoices
  /\ branch_item_updates = << >>
  /\ analyzed_updates = << >>
  /\ allocation = NoAllocation
  /\ phase = "idle"
  /\ BreakdownIdle
  /\ SessionsIdle
  /\ ParseIdle
  /\ issued = << >>
  /\ ReadIdle
  /\ DirectoryIdle

\* One call of build_integricom_user_allocations on the parsed lines.
AnalyzeRules ==
  /\ vendor_type = "integricom rules"
  /\ phase = "idle"
  /\ allocation' = BuildIntegricomUserAllocations(users, user_directory,
                                                  invoice_lines,
                                                  branch_item_updates)
  /\ analyzed_updates' = branch_item_updates
  /\ phase' = "analyzed"
  /\ UNCHANGED << vendor_type, historyVars, readVars, directoryVars, httpVars,
                  parseVars, breakdownVars, sessVars, users, user_directory,
                  invoice_lines, branch_item_updates, adobeVars, supportVars >>

\* The caller answers a pending prompt and submits again.
SubmitRules ==
  /\ vendor_type = "integricom rules"
  /\ phase = "analyzed"
  /\ allocation.unresolved_branch_prompts # << >>
  /\ Len(branch_item_updates) < MaxAnswers
  /\ \E update \in KeyedUpdates :
       branch_item_updates' = Append(branch_item_updates, update)
  /\ phase' = "idle"
  /\ UNCHANGED << vendor_type, directoryVars, historyVars, readVars, httpVars,
                  parseVars, breakdownVars, sessVars, users, user_directory,
                  invoice_lines, analyzed_updates, allocation, adobeVars,
                  supportVars >>

NextRules == AnalyzeRules \/ SubmitRules

SpecRules == InitRules /\ [][NextRules]_vars

(***************************************************************************)
(* The line-item scanner of parse_integricom_invoice, one step per line of *)
(* the extracted text.                                                     *)
(***************************************************************************)
MaxTextLines == 3

\* Lines of extracted text: a blank line, two wrapped description lines, a
\* line item with an inline description and one without, a section
\* header, a trailer and a trailer that ends in three amounts.
InvoiceTextLines ==
  { "", "NetWatch360", " Managed ", "Firewall 1.00 $50.00 $50.00",
    "2.00 $75.00 $150.00", "Microsoft 365 Products:", "Sales Tax: 0.00",
    "Total Products & Other 3.00 $10.00 $30.00" }

SectionMarkers ==
  { "products & other charges quantity price amount", "netwatch360 limited:",
    "dataprotect 360 backup products:", "microsoft 365 products:",
    "dropbox products:", "cloud server:", "password manager:" }

\* _is_integricom_section_header(line)
IsIntegricomSectionHeader(line) ==
  \E marker \in SectionMarkers : SubstringOf(marker, Lower(line))

TrailerPrefixes ==
  { "total products & other", "invoice subtotal:", "sales tax:",
    "invoice total:", "payments:", "credits:", "balance due:",
    "please pay invoices at" }

\* lowered.startswith(prefix) on the lines of the model.
StartsWith(lowered, prefix) ==
  \/ lowered = prefix
  \/ << lowered, prefix >> \in
       { << "sales tax: 0.00", "sales tax:" >>,
         << "total products & other 3.00 $10.00 $30.00",
            "total products & other" >> }

\* The lines at which the loop empties the buffer and continues.
IsResetLine(line) ==
  \/ IsIntegricomSectionHeader(line)
  \/ \E prefix \in TrailerPrefixes : StartsWith(Lower(line), prefix)

\* pattern.match(line) on the normalized lines of the model: whether the
\* pattern matches, its desc group and its three amounts as _parse_decimal
\* reads them.
PatternMatch(line) ==
  CASE line = "Firewall 1.00 $50.00 $50.00" ->
         [ matched |-> TRUE, desc |-> "Firewall ", qty |-> 1000,
           price |-> 50000, amount |-> 50000 ]
    [] line = "2.00 $75.00 $150.00" ->
         [ matched |-> TRUE, desc |-> "", qty |-> 2000, price |-> 75000,
           amount |-> 150000 ]
    [] line = "Total Products & Other 3.00 $10.00 $30.00" ->
         [ matched |-> TRUE, desc |-> "Total Products & Other ",
           qty |-> 3000, price |-> 10000, amount |-> 30000 ]
    [] OTHER ->
         [ matched |-> FALSE, desc |-> "", qty |-> 0, price |-> 0,
           amount |-> 0 ]

RECURSIVE JoinWords(_)
\* " ".join(parts)
JoinWords(parts) ==
  IF parts = << >> THEN ""
  ELSE IF Len(parts) = 1 THEN parts[1]
  ELSE parts[1] \o " " \o JoinWords(Tail(parts))

\* The scanner before its first line; built_from records, for every line
\* item, the positions of the lines its description was joined from and
\* the position of the line that completed it.
ScanStart ==
  [ index |-> 0, description_buffer |-> << >>, buffered |-> << >>,
    line_items |-> << >>, built_from |-> << >>, warnings |-> << >>,
    done |-> FALSE ]

\* The branch of the loop for a line the pattern matches.
ScanMatch(s, i, match) ==
  LET inline_desc == NormalizeIntegricomText(match.desc)
      description ==
        IF inline_desc # ""
          THEN NormalizeIntegricomText(
                 JoinWords(Append(s.description_buffer, inline_desc)))
          ELSE NormalizeIntegricomText(JoinWords(s.description_buffer))
      cleared == [ s EXCEPT !.index = i, !.description_buffer = << >>,
                            !.buffered = << >> ]
  IN  IF description = "" THEN cleared
      ELSE [ cleared EXCEPT
               !.line_items =
                 Append(@, IntegricomInvoiceLine(description, match.qty,
                                                 match.price, match.amount)),
               !.built_from =
                 Append(@, [ lines |-> s.buffered, at |-> i ]) ]

ScanStep_KeepsBuffer(s, i, raw_line) ==
  LET line == NormalizeIntegricomText(raw_line)
      kept == ScanMatch(s, i, PatternMatch(line))
  IN  IF line = "" THEN [ s EXCEPT !.index = i ]
      ELSE IF IsResetLine(line)
        THEN [ s EXCEPT !.index = i, !.description_buffer = << >>,
                        !.buffered = << >> ]
      ELSE IF PatternMatch(line).matched
        THEN [ kept EXCEPT !.description_buffer = s.description_buffer,
                           !.buffered = s.buffered ]
      ELSE [ s EXCEPT !.index = i,
                      !.description_buffer = Append(@, line),
                      !.buffered = Append(@, i) ]

\* One iteration of the loop over text.splitlines().
ScanStep(s, i, raw_line) ==
  LET line == NormalizeIntegricomText(raw_line)
  IN  IF line = "" THEN [ s EXCEPT !.index = i ]
      ELSE IF IsResetLine(line)
        THEN [ s EXCEPT !.index = i, !.description_buffer = << >>,
                        !.buffered = << >> ]
      ELSE IF PatternMatch(line).matched
        THEN ScanMatch(s, i, PatternMatch(line))
      ELSE [ s EXCEPT !.index = i,
                      !.description_buffer = Append(@, line),
                      !.buffered = Append(@, i) ]

InitScan ==
  /\ vendor_type = "invoice text"
  /\ IntegricomIdle
  /\ AdobeIdle
  /\ SupportIdle
  /\ users = << >>
  /\ user_directory = << >>
  /\ phase = "idle"
  /\ BreakdownIdle
  /\ SessionsIdle
  /\ ParseIdle
  /\ issued = << >>
  /\ DirectoryIdle
  /\ text \in SeqsUpTo(InvoiceTextLines, MaxTextLines)
  /\ scanner = ScanStart

\* The loop reads the next line.
ScanLine ==
  /\ vendor_type = "invoice text"
  /\ ~scanner.done
  /\ scanner.index < Len(text)
  /\ scanner' = ScanStep(scanner, scanner.index + 1, text[scanner.index + 1])
  /\ UNCHANGED << vendor_type, text, historyVars, directoryVars, httpVars,
                  parseVars, breakdownVars, sessVars, allocVars, adobeVars,
                  supportVars >>

\* The loop is over: the parser warns when it found no line item.
ScanEnd ==
  /\ vendor_type = "invoice text"
  /\ ~scanner.done
  /\ scanner.index = Len(text)
  /\ scanner' =
       [ scanner EXCEPT
           !.done = TRUE,
           !.warnings = IF scanner.line_items = << >>
                          THEN Append(@, [ kind |-> "no line items",
                                           name |-> "" ])
                          ELSE @ ]
  /\ UNCHANGED << vendor_type, text, historyVars, directoryVars, httpVars,
                  parseVars, breakdownVars, sessVars, allocVars, adobeVars,
                  supportVars >>

NextScan == ScanLine \/ ScanEnd

SpecScan == InitScan /\ [][NextScan]_vars

(***************************************************************************)
(* Allocation functions over export users (all three vendors).             *)
(***************************************************************************)
\* Email fields as an export row may carry them.
ExportEmails == { "ann@x.com", " Ann@X.com", "" }

\* The default branch of a user without email is never read.
ExportUsers ==
  [ email : ExportEmails \ { "" }, default_branch : { "Acworth", "" },
    licenses : { << INTEGRICOM_LICENSE_BP >>, << INTEGRICOM_LICENSE_F3 >> } ]
  \cup [ email : { "" }, default_branch : { "Acworth" },
         licenses : { << INTEGRICOM_LICENSE_BP >>, << INTEGRICOM_LICENSE_F3 >> } ]

\* Directory profile maps, keyed by email as the directory stores it.
Directories ==
  { << >> } \cup { ("ann@x.com" :> [ branch |-> b ]) : b \in { "Canton", "  " } }

AdobeDirectories ==
  Directories \cup { ("ann@x.com" :> [ branch |-> "" ]) }

DynamicNames == { "Workstation", "Microsoft Business Premium Annual" }

\* Two and a half units, and as many units as there can be users.
DynamicQuantities(canonical_name) == { 2500, MaxUsers * 1000 }

\* The dynamic lines: amounts as in LineAmounts, and the price of one unit.
DynamicLines ==
  LinesNamed(DynamicNames, DynamicQuantities)
  \cup UNION { { [ canonical_name |-> n, quantity |-> q, unit_price |-> u,
                    amount |-> u ] :
                  q \in DynamicQuantities(n), u \in UnitPrices } :
                n \in DynamicNames }

\* Product lists: none, a known product, an unknown one, two known ones,
\* two unknown ones of which one comes twice; and a user without email.
AdobeExportUsers ==
  [ email : ExportEmails \ { "" }, source_file : { "users.csv" },
    products : { << "Photoshop" >>, << "Mystery App" >>,
                 << "Illustrator", "Photoshop" >>, << >>,
                 << "Mystery App", "mystery app", "Mystery App" >> } ]
  \cup [ email : { "" }, source_file : { "users.csv" },
         products : { << "Mystery App" >> } ]

PerLicenseCosts ==
  { ("Photoshop" :> 5000), ("Photoshop" :> 5000) @@ ("Illustrator" :> 3000) }

ChargeSummaries ==
  { "FW - Savannah - packet loss", "Canton and Tampa printers",
    "Review admin consent request" }

\* f"{block_index}:{sha1(f'{block_index}:{summary.lower()}')[:10]}": the row
\* key is determined by its seed, which stands for it.
SupportRowKey(block_index, charge_summary) ==
  << block_index, Lower(charge_summary) >>

SupportBlocks ==
  UNION { { [ i \in 1..k |-> [ row_key |-> SupportRowKey(i, f[i]),
                               charge_summary |-> f[i], amount |-> 12500 ] ] :
            f \in [1..k -> ChargeSummaries] } :
          k \in 0..MaxBlocks }

SupportUpdates ==
  { [ row_key |-> blocks[i].row_key, branch |-> b ] :
      i \in 1..Len(blocks), b \in { "", "Canton", "  ", "Elsewhere" } }
  \cup { [ row_key |-> BlankLineKey, branch |-> "Canton" ] }

(***************************************************************************)
(* The block scanner of parse_integricom_support_invoice, one step per     *)
(* match of block_pattern in the extracted text.                           *)
(***************************************************************************)
\* Lines of a block body: a billable entry, an entry that is not billed, a
\* billable entry whose amount was wrapped away, a billable entry of no
\* amount, and two subtotal lines.
BilledEntry == "01/05 JD Printer fix Y 1.00 150.00 $150.00"

UnbilledEntry == "01/06 JD Phone call N 0.50 150.00 $0.00"

WrappedEntry == "01/07 JD Wrapped note Y 2.00 150.00"

FreeEntry == "No charge visit Y 0.00 150.00 $0.00"

\* What the three entry patterns and the subtotal pattern find in a body
\* line: the number of Y markers, the hours after a marker, the extended
\* amounts after a marker, and the subtotals.
BodyLine(body_line) ==
  CASE body_line = BilledEntry ->
         [ markers |-> 1, hours |-> << 1000 >>, amounts |-> << 150000 >>,
           subtotals |-> << >> ]
    [] body_line = WrappedEntry ->
         [ markers |-> 1, hours |-> << 2000 >>, amounts |-> << >>,
           subtotals |-> << >> ]
    [] body_line = FreeEntry ->
         [ markers |-> 1, hours |-> << 0 >>, amounts |-> << 0 >>,
           subtotals |-> << >> ]
    [] body_line = "Subtotal: $300.00" ->
         [ markers |-> 0, hours |-> << >>, amounts |-> << >>,
           subtotals |-> << 300000 >> ]
    [] body_line = "Subtotal: $0.00" ->
         [ markers |-> 0, hours |-> << >>, amounts |-> << >>,
           subtotals |-> << 0 >> ]
    [] OTHER ->
         [ markers |-> 0, hours |-> << >>, amounts |-> << >>,
           subtotals |-> << >> ]

BlockBodies ==
  { << >>, << UnbilledEntry >>, << BilledEntry >>,
    << BilledEntry, BilledEntry >>, << BilledEntry, "Subtotal: $300.00" >>,
    << WrappedEntry >>, << WrappedEntry, "Subtotal: $300.00" >>,
    << BilledEntry, WrappedEntry >>, << FreeEntry >>,
    << FreeEntry, "Subtotal: $0.00" >>,
    << UnbilledEntry, "Subtotal: $300.00" >> }

\* The header group of a block as _normalize_integricom_text leaves it.
BlockHeaders ==
  { "Acme / Canton and Tampa printers Location: Main", "" }

\* _integricom_support_summary_from_header(header)
SummaryFromHeader(header) ==
  CASE header = "Acme / Canton and Tampa printers Location: Main" ->
         "Canton and Tampa printers"
    [] OTHER -> Strip(header)

\* f"Support Block {block_index}"
SupportBlockName(block_index) ==
  CASE block_index = 1 -> "Support Block 1"
    [] block_index = 2 -> "Support Block 2"
    [] block_index = 3 -> "Support Block 3"
    [] OTHER -> "Support Block"

RECURSIVE SeqTotal(_)
SeqTotal(seq) == IF seq = << >> THEN 0 ELSE Head(seq) + SeqTotal(Tail(seq))

RECURSIVE BodyFinds(_, _)
\* All that a pattern finds in a body, line after line.
BodyFinds(body, field) ==
  IF body = << >> THEN << >>
  ELSE BodyLine(Head(body))[field] \o BodyFinds(Tail(body), field)

RECURSIVE BodyMarkers(_)
\* len(re.findall(r"\bY\b", body))
BodyMarkers(body) ==
  IF body = << >> THEN 0
  ELSE BodyLine(Head(body)).markers + BodyMarkers(Tail(body))

BlockAmount_LinesFirst(subtotals, line_amount_total) ==
  IF line_amount_total # 0 THEN line_amount_total ELSE Head(subtotals)

\* amount = subtotal if subtotal is not None else line_amount_total
BlockAmount(subtotals, line_amount_total) ==
  IF subtotals # << >> THEN Head(subtotals) ELSE line_amount_total

BlockScanStart ==
  [ index |-> 0, blocks |-> << >>, warnings |-> << >>, done |-> FALSE ]

\* One iteration of the loop over block_pattern.finditer(text).
BlockStep(s, block_index, match) ==
  LET billable_entries == BodyMarkers(match.body)
      billable_hours == Quantize(SeqTotal(BodyFinds(match.body, "hours")))
      line_amount_total ==
        Quantize(SeqTotal(BodyFinds(match.body, "amounts")))
      subtotals == BodyFinds(match.body, "subtotals")
      charge_summary == SummaryFromHeader(match.header)
      read == [ s EXCEPT !.index = block_index ]
  IN  IF billable_entries = 0 THEN read
      ELSE IF subtotals = << >> /\ line_amount_total = 0
        THEN [ read EXCEPT
                 !.warnings = Append(@, [ kind |-> "no parseable amount",
                                          block |-> block_index ]) ]
      ELSE [ read EXCEPT
               !.blocks =
                 Append(@, [ row_key |-> SupportRowKey(block_index,
                                                       charge_summary),
                             charge_summary |->
                               StrOr(charge_summary,
                                     SupportBlockName(block_index)),
                             billable_entries |-> billable_entries,
                             billable_hours |-> billable_hours,
                             amount |-> Quantize(BlockAmount(
                                          subtotals, line_amount_total)) ]) ]

InitBlocks ==
  /\ vendor_type = "support text"
  /\ IntegricomIdle
  /\ AdobeIdle
  /\ SupportIdle
  /\ users = << >>
  /\ user_directory = << >>
  /\ phase = "idle"
  /\ BreakdownIdle
  /\ SessionsIdle
  /\ ParseIdle
  /\ issued = << >>
  /\ DirectoryIdle
  /\ text \in SeqsUpTo([ header : BlockHeaders, body : BlockBodies ],
                       MaxBlocks)
  /\ scanner = BlockScanStart

\* The loop reads the next block.
ScanBlock ==
  /\ vendor_type = "support text"
  /\ ~scanner.done
  /\ scanner.index < Len(text)
  /\ scanner' = BlockStep(scanner, scanner.index + 1, text[scanner.index + 1])
  /\ UNCHANGED << vendor_type, text, historyVars, directoryVars, httpVars,
                  parseVars, breakdownVars, sessVars, allocVars, adobeVars,
                  supportVars >>

\* The loop is over: the parser warns when it kept no block.
BlocksEnd ==
  /\ vendor_type = "support text"
  /\ ~scanner.done
  /\ scanner.index = Len(text)
  /\ scanner' =
       [ scanner EXCEPT
           !.done = TRUE,
           !.warnings = IF scanner.blocks = << >>
                          THEN Append(@, [ kind |-> "no billable blocks",
                                           block |-> 0 ])
                          ELSE @ ]
  /\ UNCHANGED << vendor_type, text, historyVars, directoryVars, httpVars,
                  parseVars, breakdownVars, sessVars, allocVars, adobeVars,
                  supportVars >>

NextBlocks == ScanBlock \/ BlocksEnd

SpecBlocks == InitBlocks /\ [][NextBlocks]_vars

InitIntegricomExport ==
  /\ vendor_type = "integricom"
  /\ AdobeIdle
  /\ SupportIdle
  /\ users \in SeqsUpTo(ExportUsers, MaxUsers)
  /\ user_directory \in Directories
  /\ invoice_lines \in InvoicesOf(DynamicLines)
  /\ branch_item_updates = << >>
  /\ analyzed_updates = << >>
  /\ allocation = NoAllocation
  /\ phase = "idle"
  /\ BreakdownIdle
  /\ SessionsIdle
  /\ ParseIdle
  /\ issued = << >>
  /\ ReadIdle
  /\ DirectoryIdle

InitAdobeExport ==
  /\ vendor_type = "adobe"
  /\ IntegricomIdle
  /\ SupportIdle
  /\ users \in SeqsUpTo(AdobeExportUsers, MaxUsers)
  /\ user_directory \in AdobeDirectories
  /\ per_license_cost \in PerLicenseCosts
  /\ adobe_allocation = NoAdobeAllocation
  /\ adobe_parsed = NoParse
  /\ phase = "idle"
  /\ BreakdownIdle
  /\ SessionsIdle
  /\ ParseIdle
  /\ issued = << >>
  /\ ReadIdle
  /\ DirectoryIdle

InitSupport ==
  /\ vendor_type = "integricom_support"
  /\ IntegricomIdle
  /\ AdobeIdle
  /\ users = << >>
  /\ user_directory = << >>
  /\ blocks \in SupportBlocks
  /\ support_updates = << >>
  /\ support_allocation = NoSupportAllocation
  /\ phase = "idle"
  /\ BreakdownIdle
  /\ SessionsIdle
  /\ ParseIdle
  /\ issued = << >>
  /\ ReadIdle
  /\ DirectoryIdle

InitExport == InitIntegricomExport \/ InitAdobeExport \/ InitSupport

\* One call of build_adobe_user_allocations.
AdobeAllocate ==
  /\ vendor_type = "adobe"
  /\ adobe_allocation' = BuildAdobeUserAllocations(users, user_directory,
                                                   per_license_cost)
  /\ phase' = "analyzed"
  /\ UNCHANGED << vendor_type, historyVars, readVars, directoryVars, httpVars, parseVars, breakdownVars, sessVars, users, user_directory, invoice_lines,
                  branch_item_updates, analyzed_updates, allocation,
                  per_license_cost, adobe_parsed, supportVars >>

\* One call of parse_adobe_csv.
AdobeParse ==
  /\ vendor_type = "adobe"
  /\ adobe_parsed' = ParseAdobeCsv(users, user_directory, per_license_cost)
  /\ UNCHANGED << vendor_type, historyVars, readVars, directoryVars, httpVars, parseVars, breakdownVars, sessVars, users, user_directory, invoice_lines,
                  branch_item_updates, analyzed_updates, allocation, phase,
                  per_license_cost, adobe_allocation, supportVars >>

\* The caller adds one branch choice for a support block; the response to
\* the previous list is discarded.
SubmitSupportUpdate ==
  /\ vendor_type = "integricom_support"
  /\ Len(support_updates) < MaxUpdates
  /\ \E update \in SupportUpdates :
       support_updates' = Append(support_updates, update)
  /\ support_allocation' = NoSupportAllocation
  /\ phase' = "idle"
  /\ UNCHANGED << vendor_type, historyVars, readVars, directoryVars, httpVars, parseVars, breakdownVars, sessVars, users, user_directory,
                  invoice_lines, branch_item_updates, analyzed_updates,
                  allocation, adobeVars, blocks >>

\* One call of build_integricom_support_allocations.
SupportAllocate ==
  /\ vendor_type = "integricom_support"
  /\ support_allocation' = BuildIntegricomSupportAllocations(blocks,
                                                             support_updates)
  /\ phase' = "analyzed"
  /\ UNCHANGED << vendor_type, historyVars, readVars, directoryVars, httpVars, parseVars, breakdownVars, sessVars, users, user_directory, invoice_lines,
                  branch_item_updates, analyzed_updates, allocation,
                  adobeVars, blocks, support_updates >>

NextExport ==
  AnalyzePass \/ AdobeAllocate \/ AdobeParse \/ SubmitSupportUpdate
  \/ SupportAllocate

SpecExport == InitExport /\ [][NextExport]_vars

(***************************************************************************)
(* Breakdown of a list of allocation rows.                                 *)
(***************************************************************************)
\* Amounts in mills: half a cent, a cent and a half below zero, ten units.
BreakdownAmounts == { 5, -15, 10000 }

\* Rows of three (branch, license) pairs, two of them of the home office.
BreakdownRows ==
  [ source_file : { "rows.csv" }, branch : { "Home Office" },
    license : { "Photoshop", "Workstation" }, amount : BreakdownAmounts ]
  \cup [ source_file : { "rows.csv" }, branch : { "Canton" },
         license : { "Photoshop" }, amount : BreakdownAmounts ]

InitBreakdown ==
  /\ vendor_type = "generic"
  /\ IntegricomIdle
  /\ AdobeIdle
  /\ SupportIdle
  /\ users = << >>
  /\ user_directory = << >>
  /\ phase = "idle"
  /\ BreakdownIdle
  /\ SessionsIdle
  /\ ParseIdle
  /\ issued = << >>
  /\ ReadIdle
  /\ DirectoryIdle

\* One more allocation row reaches the list to be summarized; the list is
\* complete before it is summarized.
AddRow ==
  /\ vendor_type = "generic"
  /\ Len(rows) < MaxRows
  /\ summarized = << >>
  /\ \E row \in BreakdownRows : rows' = Append(rows, row)
  /\ adjusted' = NoAdjustment
  /\ UNCHANGED << vendor_type, historyVars, readVars, directoryVars, httpVars, parseVars, sessVars, allocVars, adobeVars, supportVars, summarized,
                  summary >>

\* One call of build_breakdown.
Breakdown ==
  /\ vendor_type = "generic"
  /\ summary' = BuildBreakdown(rows)
  /\ summarized' = rows
  /\ adjusted' = NoAdjustment
  /\ UNCHANGED << vendor_type, historyVars, readVars, directoryVars, httpVars, parseVars, sessVars, allocVars, adobeVars, supportVars, rows >>

\* Adjustments in mills: none, less than half a cent, ten units either way.
Adjustments == { 0, 4, 10000, -10000 }

\* The adjustments of a license of the rows, and the Adobe invoice
\* adjustment, which no row names.
AdjustmentCalls ==
  { << adjustment, "Workstation" >> : adjustment \in Adjustments }
  \cup { << 10000, ADOBE_ADJUSTMENT_LICENSE >> }

\* The call of apply_home_office_adjustment on the summary just built.
Adjust ==
  /\ vendor_type = "generic"
  /\ summarized = rows
  /\ ~adjusted.applied
  /\ \E call \in AdjustmentCalls :
       adjusted' =
         [ applied |-> TRUE, license_name |-> call[2],
           adjustment |-> call[1],
           summary |-> apply_home_office_adjustment(
                         summary, call[1], call[2],
                         ADOBE_HOME_OFFICE) ]
  /\ UNCHANGED << vendor_type, historyVars, readVars, directoryVars, httpVars, parseVars, sessVars, allocVars, adobeVars, supportVars,
                  rows, summarized, summary >>

NextBreakdown == AddRow \/ Breakdown \/ Adjust

SpecBreakdown == InitBreakdown /\ [][NextBreakdown]_vars

(***************************************************************************)
(* The end of a finalized pass: the breakdown of all rows, reconciled with *)
(* the total read from the invoice.                                        *)
(***************************************************************************)
ReconciledVendors == { "hexnode", "adobe", "integricom", "integricom_support" }

\* license_name=... in the handler's call of apply_home_office_adjustment.
AdjustmentLicense(vendor) ==
  CASE vendor = "hexnode" -> HEXNODE_DEFAULT_LICENSE
    [] vendor = "adobe" -> ADOBE_ADJUSTMENT_LICENSE
    [] vendor = "integricom" -> INTEGRICOM_ADJUSTMENT_LICENSE
    [] OTHER -> "Integricom Support Invoice Adjustment"

\* home_office_name=... in the call; the default for hexnode.
AdjustmentHomeOffice(vendor) ==
  CASE vendor = "hexnode" -> HEXNODE_HOME_OFFICE
    [] vendor = "adobe" -> ADOBE_HOME_OFFICE
    [] OTHER -> INTEGRICOM_HOME_OFFICE

RECURSIVE SummaryTotal(_)
\* sum(Decimal(str(item["total_amount"])) for item in summary)
SummaryTotal(summary_rows) ==
  IF summary_rows = << >> THEN 0
  ELSE Head(summary_rows).total_amount + SummaryTotal(Tail(summary_rows))

ReconcileAdjustment_OfRows(all_rows, invoice_total) ==
  Quantize(invoice_total
           - SummaryTotal([ i \in DOMAIN all_rows |->
                              [ total_amount |-> all_rows[i].amount ] ]))

\* adjustment = (parsed_invoice.invoice_total - base_total).quantize(0.01)
ReconcileAdjustment(all_rows, invoice_total) ==
  Quantize(invoice_total - SummaryTotal(BuildBreakdown(all_rows)))

\* What the handler keeps of the adjustment; parsed_total is << >> when the
\* invoice total is None.
Reconciled(vendor, all_rows, parsed_total) ==
  IF parsed_total = << >> THEN NoAdjustment
  ELSE [ applied |-> TRUE,
         license_name |-> AdjustmentLicense(vendor),
         adjustment |-> ReconcileAdjustment(all_rows, parsed_total[1]),
         summary |->
           apply_home_office_adjustment(
             BuildBreakdown(all_rows),
             ReconcileAdjustment(all_rows, parsed_total[1]),
             AdjustmentLicense(vendor), AdjustmentHomeOffice(vendor)) ]

\* Rows of a pass: one that names the adjustment license of the vendor at
\* the home office, a half cent at the home office, and two of a branch.
PassRows(vendor) ==
  { [ source_file |-> "rows.csv", branch |-> AdjustmentHomeOffice(vendor),
      license |-> AdjustmentLicense(vendor), amount |-> 10000 ],
    [ source_file |-> "rows.csv", branch |-> AdjustmentHomeOffice(vendor),
      license |-> "Workstation", amount |-> 5 ],
    [ source_file |-> "rows.csv", branch |-> "Canton",
      license |-> "Workstation", amount |-> 10000 ],
    [ source_file |-> "rows.csv", branch |-> "Canton",
      license |-> "Workstation", amount |-> 5 ] }

\* invoice_total of the parsed invoice: None, nothing due, the amount of
\* one row, more than the rows of the model add up to.
ParsedTotals == { << >>, << 0 >>, << 10000 >>, << 50010 >> }

InitReconcile ==
  /\ vendor_type = "reconciliation"
  /\ IntegricomIdle
  /\ AdobeIdle
  /\ SupportIdle
  /\ users = << >>
  /\ user_directory = << >>
  /\ phase = "idle"
  /\ BreakdownIdle
  /\ SessionsIdle
  /\ csv_rows = << >>
  /\ export_parse = NoExportParse
  /\ \E vendor \in ReconciledVendors :
       api_request = [ NoRequest EXCEPT !.vendor_type = vendor ]
  /\ api_response = NoResponse
  /\ issued = << >>
  /\ text = << >>
  /\ \E parsed_total \in ParsedTotals :
       scanner = [ index |-> 0, invoice_total |-> parsed_total ]
  /\ DirectoryIdle

\* The pass collects one more allocation row.
CollectRow ==
  /\ vendor_type = "reconciliation"
  /\ Len(rows) < MaxRows
  /\ summarized = << >>
  /\ \E row \in PassRows(api_request.vendor_type) : rows' = Append(rows, row)
  /\ UNCHANGED << vendor_type, historyVars, readVars, directoryVars,
                  httpVars, parseVars, sessVars, allocVars, adobeVars,
                  supportVars, summarized, summary, adjusted >>

\* The handler finalizes: build_breakdown, then the adjustment when the
\* invoice total was parsed.
FinalizePass ==
  /\ vendor_type = "reconciliation"
  /\ summarized = << >>
  /\ rows # << >>
  /\ summary' = BuildBreakdown(rows)
  /\ summarized' = rows
  /\ adjusted' = Reconciled(api_request.vendor_type, rows,
                            scanner.invoice_total)
  /\ UNCHANGED << vendor_type, historyVars, readVars, directoryVars,
                  httpVars, parseVars, sessVars, allocVars, adobeVars,
                  supportVars, rows >>

NextReconcile == CollectRow \/ FinalizePass

SpecReconcile == InitReconcile /\ [][NextReconcile]_vars

(***************************************************************************)
(* Column lookup in the header row of a CSV file.                          *)
(***************************************************************************)
MaxHeaders == 3

\* Header cells as a file may carry them.
HeaderCells ==
  { "Email", "email ", "Email Address", "E-mail", "Last", "Last Name",
    "Name", "" }

\* _normalize_header on the header cells of the model.
NormalizeHeader(value) ==
  CASE value = "Email" -> "email"
    [] value = "email " -> "email"
    [] value = "Email Address" -> "email_address"
    [] value = "E-mail" -> "e_mail"
    [] value = "Last" -> "last"
    [] value = "Last Name" -> "last_name"
    [] value = "Name" -> "name"
    [] OTHER -> value

\* d[key] = value on a dict kept as a sequence of << key, value >> in
\* insertion order: a key already there keeps its position.
DictPut(d, key, value) ==
  IF \E i \in 1..Len(d) : d[i][1] = key
    THEN [ i \in 1..Len(d) |->
             IF d[i][1] = key THEN << key, value >> ELSE d[i] ]
    ELSE Append(d, << key, value >>)

RECURSIVE NormalizedHeaders(_)
\* {_normalize_header(h): h for h in headers}
NormalizedHeaders(headers) ==
  IF headers = << >> THEN << >>
  ELSE DictPut(NormalizedHeaders(SubSeq(headers, 1, Len(headers) - 1)),
               NormalizeHeader(headers[Len(headers)]),
               headers[Len(headers)])

\* The second loop of _match_header on one dict entry.
SubstringMatch(norm, aliases) ==
  \E a \in 1..Len(aliases) :
    SubstringOf(aliases[a], norm) \/ SubstringOf(norm, aliases[a])

MatchHeader_HeadersFirst(headers, aliases) ==
  LET normalized == NormalizedHeaders(headers)
      exact == { n \in 1..Len(normalized) :
                   \E a \in 1..Len(aliases) : aliases[a] = normalized[n][1] }
      partial == { n \in 1..Len(normalized) :
                     SubstringMatch(normalized[n][1], aliases) }
  IN  IF exact # { } THEN normalized[MinOf(exact)][2]
      ELSE IF partial # { } THEN normalized[MinOf(partial)][2]
      ELSE None

\* _match_header(headers, aliases)
MatchHeader(headers, aliases) ==
  LET normalized == NormalizedHeaders(headers)
      exact == { a \in 1..Len(aliases) :
                   \E n \in 1..Len(normalized) : normalized[n][1] = aliases[a] }
      partial == { n \in 1..Len(normalized) :
                     SubstringMatch(normalized[n][1], aliases) }
  IN  IF exact # { }
        THEN LET alias == aliases[MinOf(exact)]
                 n == CHOOSE n \in 1..Len(normalized) :
                        normalized[n][1] = alias
             IN  normalized[n][2]
      ELSE IF partial # { } THEN normalized[MinOf(partial)][2]
      ELSE None

\* The alias lists parse_adobe_export_csv looks up the email, first-name
\* and last-name columns with.
AliasLists ==
  { << "email", "user_email" >>,
    << "first_name", "first", "given_name" >>,
    << "last_name", "last", "surname", "family_name" >> }

InitHeaders ==
  /\ vendor_type = "headers"
  /\ IntegricomIdle
  /\ AdobeIdle
  /\ SupportIdle
  /\ users = << >>
  /\ user_directory = << >>
  /\ phase = "idle"
  /\ BreakdownIdle
  /\ SessionsIdle
  /\ ParseIdle
  /\ issued = << >>
  /\ DirectoryIdle
  /\ text \in SeqsUpTo(HeaderCells, MaxHeaders)
  /\ \E aliases \in AliasLists :
       scanner = [ index |-> 0, aliases |-> aliases, column |-> None ]

\* One call of _match_header on the header row.
MatchColumn ==
  /\ vendor_type = "headers"
  /\ scanner.index = 0
  /\ scanner' = [ scanner EXCEPT
                    !.index = Len(text) + 1,
                    !.column = MatchHeader(text, scanner.aliases) ]
  /\ UNCHANGED << vendor_type, text, historyVars, directoryVars, httpVars,
                  parseVars, breakdownVars, sessVars, allocVars, adobeVars,
                  supportVars >>

NextHeaders == MatchColumn

SpecHeaders == InitHeaders /\ [][NextHeaders]_vars

(***************************************************************************)
(* Parsing of seat-license exports.                                        *)
(***************************************************************************)
CsvEmails == { "ann@x.com", " Ann@X.com", "", "Guest#EXT#@x.com" }

\* License or product fields: empty, blank, the marker, delimiters only,
\* one name, two names, the marker next to a name.
LicenseFields(delimiter, name, other) ==
  { << >>, << " " >>, << "Unlicensed" >>, << delimiter >>,
    << " ", delimiter, " " >>, << " ", name >>,
    << name, delimiter, " ", other >>, << "Unlicensed", delimiter, name >> }

CsvRows ==
  [ email : CsvEmails, office : { "Corporate" },
    licenses :
      IF vendor_type = "integricom"
        THEN LicenseFields("+", INTEGRICOM_LICENSE_BP, INTEGRICOM_LICENSE_F3)
        ELSE LicenseFields(",", "Photoshop", "Illustrator") ]

InitParse ==
  /\ vendor_type \in { "integricom", "adobe" }
  /\ IntegricomIdle
  /\ AdobeIdle
  /\ SupportIdle
  /\ users = << >>
  /\ user_directory = << >>
  /\ phase = "idle"
  /\ BreakdownIdle
  /\ SessionsIdle
  /\ ParseIdle
  /\ issued = << >>
  /\ ReadIdle
  /\ DirectoryIdle

\* One more data row in the export to be uploaded.
AddCsvRow ==
  /\ Len(csv_rows) < MaxCsvRows
  /\ \E row \in CsvRows : csv_rows' = Append(csv_rows, row)
  /\ export_parse' = NoExportParse
  /\ UNCHANGED << vendor_type, historyVars, readVars, directoryVars, httpVars, allocVars, adobeVars, supportVars,
                  breakdownVars, sessVars >>

\* One call of parse_integricom_export_csv.
ParseIntegricomExport ==
  /\ vendor_type = "integricom"
  /\ export_parse' = parse_integricom_export_csv(csv_rows)
  /\ UNCHANGED << vendor_type, historyVars, readVars, directoryVars, httpVars, allocVars, adobeVars, supportVars,
                  breakdownVars, sessVars, csv_rows >>

\* One call of parse_adobe_export_csv.
ParseAdobeExport ==
  /\ vendor_type = "adobe"
  /\ export_parse' = parse_adobe_export_csv(csv_rows)
  /\ UNCHANGED << vendor_type, historyVars, readVars, directoryVars, httpVars, allocVars, adobeVars, supportVars,
                  breakdownVars, sessVars, csv_rows >>

NextParse == AddCsvRow \/ ParseIntegricomExport \/ ParseAdobeExport

SpecParse == InitParse /\ [][NextParse]_vars

(***************************************************************************)
(* Requests to the analyze endpoint.                                       *)
(***************************************************************************)
AnalyzeRequests ==
  [ vendor_type : { "generic", "hexnode", "adobe", "integricom",
                    "integricom_support", " Integricom ", "other" },
    csv_files : { NoCsvFiles, CsvFiles(<< >>), CsvFiles(<< "users.csv" >>),
                  CsvFiles(<< "" >>) },
    invoice_file : { None, "invoice.pdf" } ]

InitEndpoint ==
  /\ vendor_type = "endpoint"
  /\ IntegricomIdle
  /\ AdobeIdle
  /\ SupportIdle
  /\ users = << >>
  /\ user_directory = << >>
  /\ phase = "idle"
  /\ BreakdownIdle
  /\ SessionsIdle
  /\ ParseIdle
  /\ issued = << >>
  /\ ReadIdle
  /\ DirectoryIdle

\* A request reaches the endpoint.
Receive ==
  /\ vendor_type = "endpoint"
  /\ api_request = NoRequest
  /\ api_request' \in AnalyzeRequests
  /\ UNCHANGED << vendor_type, historyVars, readVars, directoryVars, allocVars, adobeVars, supportVars,
                  breakdownVars, sessVars, csv_rows, export_parse,
                  api_response >>

\* The endpoint answers the request, or hands it to a handler.
AnalyzeEndpoint ==
  /\ vendor_type = "endpoint"
  /\ api_request # NoRequest
  /\ api_response = NoResponse
  /\ api_response' = analyze(api_request)
  /\ UNCHANGED << vendor_type, historyVars, readVars, directoryVars, allocVars, adobeVars, supportVars,
                  breakdownVars, sessVars, csv_rows, export_parse,
                  api_request >>

NextEndpoint == Receive \/ AnalyzeEndpoint

SpecEndpoint == InitEndpoint /\ [][NextEndpoint]_vars

(***************************************************************************)
(* Analyze passes of upload sessions against the shared directories.       *)
(* Each directory call of a pass opens its own connection and commits, so  *)
(* it is one atomic step; passes of different sessions (requests served by *)
(* different worker processes over the same SQLite files) interleave       *)
(* between those calls.                                                    *)
(***************************************************************************)
\* Export users as the export parsers emit them: normalized email, and for
\* Integricom a default branch that is never blank.
SessionIntegricomUsers ==
  { << [ email |-> "ann@x.com", default_branch |-> "Acworth",
         licenses |-> << INTEGRICOM_LICENSE_BP >> ] >> }

SessionAdobeUsers ==
  { << [ email |-> "ann@x.com", source_file |-> "users.csv",
         products |-> << "Photoshop" >> ] >> }

\* One dynamic line, and one sequential line with one branch more than its
\* template.
SessionInvoices ==
  { << [ canonical_name |-> "Workstation", quantity |-> 1000,
         unit_price |-> 10000, amount |-> 10000 ] >>,
    << [ canonical_name |-> "NetWatch360 Managed Firewall", quantity |-> 14000,
         unit_price |-> 10000, amount |-> 140000 ] >> }

SessionCorrections ==
  { << >>, << [ email |-> "ann@x.com", branch |-> "Canton" ] >> }

SessionBranchItems ==
  { << >>,
    << [ line_key |-> LineKey(1, "NetWatch360 Managed Firewall"),
         prompt_index |-> 1, branch |-> "Sugar Hill" ] >> }

Requests ==
  [ vendor : { "integricom" }, export_users : SessionIntegricomUsers,
    invoice_lines : SessionInvoices, per_license_cost : { << >> },
    submitted_updates : SessionCorrections,
    submitted_branch_item_updates : SessionBranchItems ]
  \cup
  [ vendor : { "adobe" }, export_users : SessionAdobeUsers,
    invoice_lines : { << >> }, per_license_cost : { ("Photoshop" :> 5000) },
    submitted_updates : SessionCorrections,
    submitted_branch_item_updates : { << >> } ]

\* The session's state at the start of a pass over a request.
NewPass(request, pass_no) ==
  [ pc |-> "start", pass_no |-> pass_no, vendor |-> request.vendor,
    export_users |-> request.export_users,
    invoice_lines |-> request.invoice_lines,
    per_license_cost |-> request.per_license_cost,
    submitted_updates |-> request.submitted_updates,
    submitted_branch_item_updates |-> request.submitted_branch_item_updates,
    directory |-> << >>, unresolved_emails |-> << >>,
    unresolved_branch_prompts |-> << >>, inserted |-> { }, touched |-> FALSE ]

\* Directory tables a deployment can hold before the sessions start.
StoredTables ==
  { << >>,
    ("ann@x.com" :>
       [ first_name |-> "Ann", last_name |-> "Lee", branch |-> "Tampa",
         is_active |-> FALSE, created_at |-> 0, updated_at |-> 0,
         last_seen_at |-> 0 ]) }

TableOf(vendor) ==
  IF vendor = "integricom" THEN integricom_users ELSE adobe_users

WriteTable(vendor, table) ==
  IF vendor = "integricom"
    THEN integricom_users' = table /\ UNCHANGED adobe_users
    ELSE adobe_users' = table /\ UNCHANGED integricom_users

Upsert(vendor, table, payload) ==
  IF vendor = "integricom"
    THEN upsert_integricom_users(table, payload, clock)
    ELSE upsert_adobe_users(table, payload, clock)

TouchSeen(vendor, table, payload) ==
  IF vendor = "integricom"
    THEN touch_seen_integricom_users(table, payload, clock)
    ELSE touch_seen_users(table, payload, clock)

(***************************************************************************)
(* One caller of the directory: an upsert of a payload, the same upsert    *)
(* once more, and the clock moving on in between.                          *)
(***************************************************************************)
MaxPayload == 2

MaxClock == 2

PayloadEmails == { "ann@x.com", " Ann@X.com", "" }

PayloadBranches == { "Canton", " Grayson", "" }

PayloadItems ==
  { [ email |-> e, first_name |-> "Ann", last_name |-> "Ray", branch |-> b ] :
      e \in PayloadEmails, b \in PayloadBranches }
  \cup { [ email |-> "ann@x.com", branch |-> "Canton" ] }

Payloads ==
  UNION { [ 1..n -> PayloadItems ] : n \in 0..MaxPayload }

DirectoryVendor ==
  IF vendor_type = "integricom directory" THEN "integricom" ELSE "adobe"

InitDirectoryCalls ==
  /\ vendor_type \in { "integricom directory", "adobe directory" }
  /\ IntegricomIdle
  /\ AdobeIdle
  /\ SupportIdle
  /\ users = << >>
  /\ user_directory = << >>
  /\ phase = "idle"
  /\ BreakdownIdle
  /\ ParseIdle
  /\ issued = << >>
  /\ ReadIdle
  /\ integricom_users \in StoredTables
  /\ adobe_users \in StoredTables
  /\ table0 = << >>
  /\ session = [ s \in Sessions |-> IdleSession ]
  /\ passes = 0
  /\ clock = 1
  /\ upserted = NoUpsert

\* _utc_now() moves on.
Tick ==
  /\ vendor_type \in { "integricom directory", "adobe directory" }
  /\ clock < MaxClock
  /\ clock' = clock + 1
  /\ UNCHANGED << vendor_type, historyVars, readVars, allocVars, adobeVars, supportVars,
                  breakdownVars, sessVars, parseVars, httpVars, upserted >>

\* upsert_integricom_users(payload) / upsert_adobe_users(payload)
UpsertUsers ==
  /\ vendor_type \in { "integricom directory", "adobe directory" }
  /\ upserted.runs = 0
  /\ \E payload \in Payloads :
       /\ WriteTable(DirectoryVendor,
                     Upsert(DirectoryVendor, TableOf(DirectoryVendor), payload))
       /\ upserted' =
            [ payload |-> payload, before |-> TableOf(DirectoryVendor),
              once |-> Upsert(DirectoryVendor, TableOf(DirectoryVendor),
                              payload),
              runs |-> 1 ]
  /\ UNCHANGED << vendor_type, historyVars, readVars, allocVars, adobeVars, supportVars,
                  breakdownVars, table0, session, passes, parseVars, httpVars,
                  clock >>

\* The same call with the same payload once more.
UpsertAgain ==
  /\ vendor_type \in { "integricom directory", "adobe directory" }
  /\ upserted.runs = 1
  /\ WriteTable(DirectoryVendor,
                Upsert(DirectoryVendor, TableOf(DirectoryVendor),
                       upserted.payload))
  /\ upserted' = [ upserted EXCEPT !.runs = 2 ]
  /\ UNCHANGED << vendor_type, historyVars, readVars, allocVars, adobeVars, supportVars,
                  breakdownVars, table0, session, passes, parseVars, httpVars,
                  clock >>

NextDirectory == Tick \/ UpsertUsers \/ UpsertAgain

SpecDirectory == InitDirectoryCalls /\ [][NextDirectory]_vars

InitSessions ==
  /\ vendor_type = "per session"
  /\ IntegricomIdle
  /\ AdobeIdle
  /\ SupportIdle
  /\ users = << >>
  /\ user_directory = << >>
  /\ phase = "idle"
  /\ BreakdownIdle
  /\ ParseIdle
  /\ issued = << >>
  /\ ReadIdle
  /\ DirectoryIdle
  /\ integricom_users \in StoredTables
  /\ adobe_users \in StoredTables
  /\ table0 = integricom_users
  /\ session = [ s \in Sessions |-> IdleSession ]
  /\ passes = 0

functionVars ==
  << vendor_type, allocVars, adobeVars, supportVars, breakdownVars,
     parseVars, httpVars, directoryVars, historyVars, readVars >>

\* A request arrives: the session starts a pass over it.
StartPass(s) ==
  /\ session[s].pc \in { "idle", "returned", "finalized" }
  /\ passes < MaxPasses
  /\ \E request \in Requests :
       session' = [ session EXCEPT ![s] = NewPass(request, @.pass_no + 1) ]
  /\ passes' = passes + 1
  /\ UNCHANGED << functionVars, integricom_users, adobe_users, table0 >>

\* init_*_directory(), then the upsert of the submitted corrections.
UpsertCorrections(s) ==
  /\ session[s].pc = "start"
  /\ WriteTable(session[s].vendor,
                Upsert(session[s].vendor,
                       InitDirectory(TableOf(session[s].vendor)),
                       CorrectionsToWrite(session[s].submitted_updates)))
  /\ session' =
       [ session EXCEPT
           ![s].pc = "corrected",
           ![s].inserted =
             @ \cup (DOMAIN Upsert(session[s].vendor,
                                   InitDirectory(TableOf(session[s].vendor)),
                                   CorrectionsToWrite(session[s].submitted_updates))
                     \ DOMAIN TableOf(session[s].vendor)) ]
  /\ UNCHANGED << functionVars, table0, passes >>

\* directory = list_*_users()
ListDirectory(s) ==
  /\ session[s].pc = "corrected"
  /\ WriteTable(session[s].vendor, InitDirectory(TableOf(session[s].vendor)))
  /\ session' =
       [ session EXCEPT
           ![s].pc = IF session[s].vendor = "integricom"
                       THEN "listed" ELSE "allocating",
           ![s].directory = ListUsers(InitDirectory(TableOf(session[s].vendor))) ]
  /\ UNCHANGED << functionVars, table0, passes >>

\* "if seed_users: upsert_integricom_users(seed_users)"
SeedUpsert(s) ==
  /\ session[s].pc = "listed"
  /\ integricom_users' =
       upsert_integricom_users(integricom_users,
                               SeedUsers(session[s].export_users,
                                         session[s].directory), clock)
  /\ session' =
       [ session EXCEPT
           ![s].pc = IF SeedUsers(session[s].export_users,
                                  session[s].directory) # << >>
                       THEN "seeded" ELSE "allocating",
           ![s].inserted =
             @ \cup (DOMAIN upsert_integricom_users(
                              integricom_users,
                              SeedUsers(session[s].export_users,
                                        session[s].directory), clock)
                     \ DOMAIN integricom_users) ]
  /\ UNCHANGED << functionVars, adobe_users, table0, passes >>

\* "directory = list_integricom_users()" after a seed upsert.
Relist(s) ==
  /\ session[s].pc = "seeded"
  /\ integricom_users' = InitDirectory(integricom_users)
  /\ session' =
       [ session EXCEPT
           ![s].pc = "allocating",
           ![s].directory = ListUsers(InitDirectory(integricom_users)) ]
  /\ UNCHANGED << functionVars, adobe_users, table0, passes >>

\* What the allocation function of the session's vendor returns.
SessionAllocation(sess) ==
  IF sess.vendor = "integricom"
    THEN BuildIntegricomUserAllocations(sess.export_users,
                                        DirectoryToProfileMap(sess.directory),
                                        sess.invoice_lines,
                                        sess.submitted_branch_item_updates)
    ELSE BuildAdobeUserAllocations(sess.export_users,
                                   DirectoryToProfileMap(sess.directory),
                                   sess.per_license_cost)
         @@ [ unresolved_branch_prompts |-> << >> ]

\* The session after the allocation and the gate that follows it.
Gated(sess, unresolved_emails, unresolved_branch_prompts) ==
  [ sess EXCEPT
      !.unresolved_emails = unresolved_emails,
      !.unresolved_branch_prompts = unresolved_branch_prompts,
      !.pc = IF NeedsMoreInput(unresolved_emails, unresolved_branch_prompts)
               THEN "returned" ELSE "finalizing" ]

AllocatedWith(sess, result) ==
  Gated(sess, result.unresolved_emails, result.unresolved_branch_prompts)

\* The allocation call and the early return for a pass that needs more
\* input.
Allocate(s) ==
  /\ session[s].pc = "allocating"
  /\ session' =
       [ session EXCEPT
           ![s] = AllocatedWith(session[s], SessionAllocation(session[s])) ]
  /\ UNCHANGED << functionVars, integricom_users, adobe_users, table0, passes >>

\* touch_seen_users / touch_seen_integricom_users over the export users.
Touch(s) ==
  /\ session[s].pc = "finalizing"
  /\ WriteTable(session[s].vendor,
                TouchSeen(session[s].vendor, TableOf(session[s].vendor),
                          session[s].export_users))
  /\ session' = [ session EXCEPT ![s].pc = "finalized", ![s].touched = TRUE ]
  /\ UNCHANGED << functionVars, table0, passes >>

NextSessions ==
  \E s \in Sessions :
    \/ StartPass(s)
    \/ UpsertCorrections(s)
    \/ ListDirectory(s)
    \/ SeedUpsert(s)
    \/ Relist(s)
    \/ Allocate(s)
    \/ Touch(s)

SpecSessions == InitSessions /\ [][NextSessions]_vars

(***************************************************************************)
(* Vocabulary of the claims about one pass.                                *)
(***************************************************************************)
(***************************************************************************)
(* One caller analysing the same uploads again and again, each pass a      *)
(* whole run of _analyze_integricom or _analyze_adobe with the answers the *)
(* caller sends along.                                                     *)
(***************************************************************************)
MaxRounds == 2

\* The uploads of a round of passes: an export with one user, with or
\* without an office, and an invoice with a per-user line, alone or followed
\* by a firewall line two units over its template; or an Adobe export.
RoundUploads ==
  [ vendor : { "integricom" },
    export_users :
      { << [ email |-> "ann@x.com", default_branch |-> b,
             licenses |-> << INTEGRICOM_LICENSE_BP >> ] >> :
          b \in { "", "Acworth" } },
    invoice_lines :
      { << [ canonical_name |-> "Workstation", quantity |-> 1000,
             unit_price |-> 10000, amount |-> 10000 ] >>,
        << [ canonical_name |-> "Workstation", quantity |-> 1000,
             unit_price |-> 10000, amount |-> 10000 ],
           [ canonical_name |-> "NetWatch360 Managed Firewall",
             quantity |-> 15000, unit_price |-> 10000, amount |-> 150000 ] >> },
    per_license_cost : { << >> } ]
  \cup
  [ vendor : { "adobe" }, export_users : SessionAdobeUsers,
    invoice_lines : { << >> }, per_license_cost : { ("Photoshop" :> 5000) } ]

\* The answers a caller can send for the extra units of line i: none, or a
\* branch for either unit.
RoundAnswers(lines, i) ==
  LET answer(p, b) == [ line_key |-> LineKey(i, lines[i].canonical_name),
                        prompt_index |-> p, branch |-> b ]
      choices(p) == { << >> } \cup { << answer(p, b) >> :
                                       b \in { "Grayson", "Sugar Hill" } }
  IN  { first \o second : first \in choices(1), second \in choices(2) }

RoundBranchItems(lines) ==
  IF Len(lines) = 2 THEN RoundAnswers(lines, 2) ELSE { << >> }

\* What a pass gave back, as the caller sees it.
NoRounds == << >>

\* The directory after the upsert of the submitted corrections.
PassCorrected(vendor, table, submitted_updates) ==
  Upsert(vendor, InitDirectory(table), CorrectionsToWrite(submitted_updates))

\* The directory after the seed upsert (Integricom only).
PassSeeded(vendor, corrected, export_users) ==
  IF vendor = "integricom"
    THEN upsert_integricom_users(corrected,
                                 SeedUsers(export_users, ListUsers(corrected)),
                                 clock)
    ELSE corrected

\* The listing read before the corrections are written.
PassDirectory_Stale(vendor, table, submitted_updates, export_users) ==
  ListUsers(PassSeeded(vendor, InitDirectory(table), export_users))

\* The listing the allocation is given: read after the corrections and the
\* seed rows are written.
PassDirectory(vendor, table, submitted_updates, export_users) ==
  ListUsers(PassSeeded(vendor, PassCorrected(vendor, table, submitted_updates),
                       export_users))

\* The session at the end of the pass: gated, and finalized past the gate.
PassEnd(sess) ==
  LET gated == AllocatedWith(sess, SessionAllocation(sess))
  IN  IF gated.pc = "finalizing"
        THEN [ gated EXCEPT !.pc = "finalized", !.touched = TRUE ]
        ELSE gated

\* The stored table at the end of the pass.
PassTable(vendor, table, ended) ==
  LET written == PassSeeded(vendor,
                            PassCorrected(vendor, table,
                                          ended.submitted_updates),
                            ended.export_users)
  IN  IF ended.pc = "finalized"
        THEN TouchSeen(vendor, written, ended.export_users)
        ELSE written

InitRounds ==
  /\ vendor_type = "rounds"
  /\ IntegricomIdle
  /\ AdobeIdle
  /\ SupportIdle
  /\ users = << >>
  /\ user_directory = << >>
  /\ phase = "idle"
  /\ BreakdownIdle
  /\ ParseIdle
  /\ issued = NoRounds
  /\ ReadIdle
  /\ DirectoryIdle
  /\ integricom_users \in StoredTables
  /\ adobe_users = integricom_users
  /\ table0 = << >>
  /\ \E uploads \in RoundUploads :
       session =
         [ s \in Sessions |->
             IF s = "s1"
               THEN [ NewPass(uploads @@ [ submitted_updates |-> << >>,
                                           submitted_branch_item_updates |-> << >> ],
                              0)
                      EXCEPT !.pc = "idle" ]
               ELSE IdleSession ]
  /\ passes = 0

\* One pass of the handler over the uploads of the round, with the
\* corrections and answers sent along.
PassOver(vendor, submitted_updates, branch_items) ==
  LET table == TableOf(vendor)
      sess == [ session["s1"] EXCEPT
                  !.pc = "allocating",
                  !.pass_no = @ + 1,
                  !.submitted_updates = submitted_updates,
                  !.submitted_branch_item_updates = branch_items,
                  !.directory = PassDirectory(vendor, table, submitted_updates,
                                              session["s1"].export_users) ]
  IN  /\ session' = [ session EXCEPT !["s1"] = PassEnd(sess) ]
      /\ WriteTable(vendor, PassTable(vendor, table, PassEnd(sess)))
      /\ issued' = Append(issued, PassEnd(sess))
      /\ passes' = passes + 1

\* _analyze_integricom
IntegricomPass ==
  /\ vendor_type = "rounds"
  /\ session["s1"].vendor = "integricom"
  /\ passes < MaxRounds
  /\ \E submitted_updates \in SessionCorrections,
        branch_items \in RoundBranchItems(session["s1"].invoice_lines) :
       PassOver("integricom", submitted_updates, branch_items)
  /\ UNCHANGED << vendor_type, readVars, allocVars, adobeVars, supportVars,
                  breakdownVars, parseVars, httpVars, directoryVars, table0 >>

\* _analyze_adobe
AdobePass ==
  /\ vendor_type = "rounds"
  /\ session["s1"].vendor = "adobe"
  /\ passes < MaxRounds
  /\ \E submitted_updates \in SessionCorrections :
       PassOver("adobe", submitted_updates, << >>)
  /\ UNCHANGED << vendor_type, readVars, allocVars, adobeVars, supportVars,
                  breakdownVars, parseVars, httpVars, directoryVars, table0 >>

NextRounds == IntegricomPass \/ AdobePass

SpecRounds == InitRounds /\ [][NextRounds]_vars

MaxOf(S) == CHOOSE x \in S : \A y \in S : y <= x

\* The branch the last pass was given for (line_key, prompt_index): the
\* last well-formed entry of the correction list for that key, trimmed.
SubmittedBranch(line_key, prompt_index) ==
  LET hits == { j \in 1..Len(analyzed_updates) :
                  /\ analyzed_updates[j].line_key = line_key
                  /\ analyzed_updates[j].prompt_index = prompt_index }
  IN  IF hits = {} THEN "" ELSE Strip(analyzed_updates[MaxOf(hits)].branch)

\* The rows and prompts the last pass returned for the i-th invoice line.
\* Rows carry the license, not the line, so a line is told apart by its
\* canonical name; NameOnce says no other line of the invoice shares it.
NameOnce(i) ==
  \A j \in 1..Len(invoice_lines) :
    invoice_lines[j].canonical_name = invoice_lines[i].canonical_name => j = i

KeyOf(i) == LineKey(i, invoice_lines[i].canonical_name)

LineRows(i) ==
  SelectSeq(allocation.line_rows,
            LAMBDA r : r.license = invoice_lines[i].canonical_name)

LinePrompts(i) ==
  SelectSeq(allocation.unresolved_branch_prompts,
            LAMBDA q : q.line_key = KeyOf(i))

RowsOn(i, branch) == SelectSeq(LineRows(i), LAMBDA r : r.branch = branch)

TemplateOf(i) == SequenceTemplate(invoice_lines[i].canonical_name)

QtyOf(i) == IntOf(invoice_lines[i].quantity)

UnitOf(i) == invoice_lines[i].unit_price

\* The i-th line is distributed sequentially and the pass has run.
SequentialLine(i) ==
  /\ phase = "analyzed"
  /\ i \in 1..Len(invoice_lines)
  /\ invoice_lines[i].canonical_name \in SequentialNames
  /\ NameOnce(i)

Extras(i) == QtyOf(i) - Len(TemplateOf(i))

\* Every extra unit of line i was answered with a non-blank branch outside
\* the template, no two answers alike.
AllExtrasAnswered(i) ==
  /\ \A p \in 1..Extras(i) :
       /\ SubmittedBranch(KeyOf(i), p) # ""
       /\ SubmittedBranch(KeyOf(i), p) \notin Range(TemplateOf(i))
  /\ \A p, q \in 1..Extras(i) :
       SubmittedBranch(KeyOf(i), p) = SubmittedBranch(KeyOf(i), q) => p = q

NoExtrasAnswered(i) ==
  \A p \in 1..Extras(i) : SubmittedBranch(KeyOf(i), p) = ""

\* Exactly Q-N prompts, numbered 1..Q-N in order, all with the line's key.
PromptsOneToExtras(i) ==
  /\ Len(LinePrompts(i)) = Extras(i)
  /\ \A j \in 1..Len(LinePrompts(i)) :
       /\ LinePrompts(i)[j].prompt_index = j
       /\ LinePrompts(i)[j].line_key = KeyOf(i)

UnitRow(i, branch) ==
  [ source_file |-> "invoice", branch |-> branch,
    license |-> invoice_lines[i].canonical_name, amount |-> UnitOf(i) ]

\* The rows of line i are the template's unit rows followed by one unit
\* row per answered extra, and nothing else (no residual row).
UnitRowsOnly(i) ==
  /\ Len(LineRows(i)) = QtyOf(i)
  /\ \A j \in 1..Len(TemplateOf(i)) :
       LineRows(i)[j] = UnitRow(i, TemplateOf(i)[j])
  /\ \A p \in 1..Extras(i) :
       LineRows(i)[Len(TemplateOf(i)) + p]
         = UnitRow(i, SubmittedBranch(KeyOf(i), p))

\* C1 as stated: for Q > N a pass without submissions returns the Q-N
\* prompts 1..Q-N with the line's key; a pass that answers every extra with
\* distinct non-blank branches outside the template returns no prompt,
\* posts one unit_price row to each submitted branch and, when the amount
\* is Q x unit_price, posts no residual row on Home Office.
C1_AsStated ==
  \A i \in 1..Len(invoice_lines) :
    (SequentialLine(i) /\ Extras(i) > 0) =>
      /\ NoExtrasAnswered(i) => PromptsOneToExtras(i)
      /\ AllExtrasAnswered(i) =>
           /\ LinePrompts(i) = << >>
           /\ \A p \in 1..Extras(i) :
                Len(RowsOn(i, SubmittedBranch(KeyOf(i), p))) = 1
           /\ invoice_lines[i].amount = QtyOf(i) * UnitOf(i) => UnitRowsOnly(i)

\* C1 amended: the same, except that the unit rows are posted only when the
\* unit price is non-zero; with a zero unit price an accepted answer posts
\* no row at all.
C1_SequentialOverflow ==
  \A i \in 1..Len(invoice_lines) :
    (SequentialLine(i) /\ Extras(i) > 0) =>
      /\ NoExtrasAnswered(i) => PromptsOneToExtras(i)
      /\ AllExtrasAnswered(i) =>
           /\ LinePrompts(i) = << >>
           /\ \A p \in 1..Extras(i) :
                Len(RowsOn(i, SubmittedBranch(KeyOf(i), p)))
                  = IF UnitOf(i) # 0 THEN 1 ELSE 0
           /\ (invoice_lines[i].amount = QtyOf(i) * UnitOf(i) /\ UnitOf(i) # 0)
                => UnitRowsOnly(i)
           /\ (invoice_lines[i].amount = QtyOf(i) * UnitOf(i) /\ UnitOf(i) = 0)
                => LineRows(i) = << >>

C1_Witness ==
  \E i \in 1..Len(invoice_lines) :
    /\ SequentialLine(i)
    /\ Extras(i) = 2
    /\ UnitOf(i) # 0
    /\ invoice_lines[i].amount = QtyOf(i) * UnitOf(i)
    /\ AllExtrasAnswered(i)
    /\ LinePrompts(i) = << >>
    /\ Len(LineRows(i)) = QtyOf(i)

\* The residual row of line i: what the amount leaves over the units.
ResidualRow(i, units) ==
  [ source_file |-> "invoice", branch |-> INTEGRICOM_HOME_OFFICE,
    license |-> invoice_lines[i].canonical_name,
    amount |-> invoice_lines[i].amount - units * UnitOf(i) ]

\* C2: for 0 <= Q <= N and a non-zero unit price, the rows of the line
\* start with one unit_price row for each of the first Q template branches,
\* in template order; nothing follows them but the residual row on Home
\* Office, so no other template branch gets a unit row; and no prompt is
\* produced, whatever submissions the pass was given.
C2_WithinTemplate ==
  \A i \in 1..Len(invoice_lines) :
    (SequentialLine(i) /\ QtyOf(i) >= 0 /\ Extras(i) <= 0 /\ UnitOf(i) # 0) =>
      /\ LinePrompts(i) = << >>
      /\ Len(LineRows(i)) \in { QtyOf(i), QtyOf(i) + 1 }
      /\ \A j \in 1..QtyOf(i) : LineRows(i)[j] = UnitRow(i, TemplateOf(i)[j])
      /\ Len(LineRows(i)) = QtyOf(i) + 1 =>
           /\ LineRows(i)[QtyOf(i) + 1] = ResidualRow(i, QtyOf(i))
           /\ ResidualRow(i, QtyOf(i)).amount # 0
      /\ Len(LineRows(i)) = QtyOf(i) => ResidualRow(i, QtyOf(i)).amount = 0

C2_Witness ==
  \E i \in 1..Len(invoice_lines) :
    /\ SequentialLine(i)
    /\ QtyOf(i) = 2
    /\ UnitOf(i) # 0
    /\ SubmittedBranch(KeyOf(i), 1) = "Sugar Hill"
    /\ Len(LineRows(i)) = 3
    /\ LineRows(i)[2] = UnitRow(i, TemplateOf(i)[2])

\* The answer to extra unit p of line i was accepted by the last pass.
Accepted(i, p) ==
  /\ SubmittedBranch(KeyOf(i), p) # ""
  /\ \A j \in 1..Len(LinePrompts(i)) : LinePrompts(i)[j].prompt_index # p

\* The answer to extra unit p of line i names a branch the line already has:
\* a template branch, or the accepted answer to a lower extra unit.
NamesAssignedBranch(i, p) ==
  LET b == SubmittedBranch(KeyOf(i), p)
  IN  /\ b # ""
      /\ \/ b \in Range(TemplateOf(i))
         \/ \E q \in 1..(p - 1) :
              Accepted(i, q) /\ SubmittedBranch(KeyOf(i), q) = b

\* The prompts of line i re-emitted for extra unit p with branch b.
Reemitted(i, p, b) ==
  SelectSeq(LinePrompts(i),
            LAMBDA q : /\ q.prompt_index = p
                       /\ q.branch = b
                       /\ q.validation_error # "")

\* C3: a submission naming a branch the line already has (a template
\* branch, or one accepted for a lower prompt_index in the same pass) is
\* rejected: the branch keeps its single unit row and gets no further one,
\* and exactly one prompt with the same line_key and prompt_index comes
\* back, carrying the submitted branch and a non-empty validation_error.
C3_DuplicateRejected ==
  \A i \in 1..Len(invoice_lines) :
    (SequentialLine(i) /\ Extras(i) > 0) =>
      \A p \in 1..Extras(i) :
        NamesAssignedBranch(i, p) =>
          LET b == SubmittedBranch(KeyOf(i), p)
          IN  /\ Len(Reemitted(i, p, b)) = 1
              /\ Len(SelectSeq(LinePrompts(i),
                               LAMBDA q : q.prompt_index = p)) = 1
              /\ Len(RowsOn(i, b)) = IF UnitOf(i) # 0 THEN 1 ELSE 0

C3_Witness ==
  \E i \in 1..Len(invoice_lines) :
    /\ SequentialLine(i)
    /\ Extras(i) = 2
    /\ UnitOf(i) # 0
    /\ Accepted(i, 1)
    /\ SubmittedBranch(KeyOf(i), 1) \notin Range(TemplateOf(i))
    /\ SubmittedBranch(KeyOf(i), 2) = SubmittedBranch(KeyOf(i), 1)
    /\ Len(Reemitted(i, 2, SubmittedBranch(KeyOf(i), 2))) = 1

(***************************************************************************)
(* Vocabulary of the claims about export users.                            *)
(***************************************************************************)
\* The dynamic line of the invoice (its first line) and the export users
\* its rule matches.
DynLine == invoice_lines[1]

MatchedCount ==
  Cardinality({ i \in 1..Len(users) :
                  IntegricomUserMatchesRule(users[i], DynLine.canonical_name) })

\* A pass over a dynamic line whose whole quantity differs from the number
\* of matched users.
QuantityDiffers ==
  /\ vendor_type = "integricom"
  /\ phase = "analyzed"
  /\ invoice_lines # << >>
  /\ DynLine.canonical_name \in dynamic_licenses
  /\ IntOf(DynLine.quantity) # MatchedCount

\* The reconciliation rows posted for the dynamic line.
DeltaRows ==
  SelectSeq(allocation.non_user_rows_raw,
            LAMBDA r : r.allocation_type = "Invoice Delta"
                       /\ r.row.license = DynLine.canonical_name)

\* line.amount - unit_price x m
ExpectedDelta == DynLine.amount - DynLine.unit_price * MatchedCount

ExpectedDeltaRow ==
  [ source_file |-> "invoice", branch |-> INTEGRICOM_HOME_OFFICE,
    license |-> DynLine.canonical_name, amount |-> ExpectedDelta ]

OneDeltaRow ==
  /\ DeltaRows = << [ row |-> ExpectedDeltaRow,
                      allocation_type |-> "Invoice Delta" ] >>
  /\ LineRows(1) # << >>
  /\ LineRows(1)[Len(LineRows(1))]
       = ExpectedDeltaRow

WarningNamesLine ==
  \E i \in 1..Len(allocation.warnings) :
    /\ allocation.warnings[i].kind = "quantity_mismatch"
    /\ allocation.warnings[i].name = DynLine.canonical_name

\* The number of per-user rows of the dynamic line in line_rows.
UserRowCount ==
  Len(LineRows(1)) - Len(DeltaRows)

\* C7 as the specification states it: whenever int(quantity) differs from
\* the matched count, exactly one reconciliation row of amount
\* line.amount - unit_price x m is posted to Home Office and a warning
\* names the line.
C7_AsStated == QuantityDiffers => (OneDeltaRow /\ WarningNamesLine)

\* C7: whenever int(quantity) differs from the matched count m, a warning
\* names the line; when line.amount - unit_price x m is not zero exactly one
\* reconciliation row of that amount is posted to Home Office, and when it
\* is zero no reconciliation row is posted.
C7_DynamicReconciliation ==
  QuantityDiffers =>
    /\ WarningNamesLine
    /\ IF ExpectedDelta # 0 THEN OneDeltaRow ELSE DeltaRows = << >>

C7_Witness ==
  /\ QuantityDiffers
  /\ MatchedCount >= 1
  /\ DynLine.unit_price # 0
  /\ ExpectedDelta # 0
  /\ ExpectedDelta # (IntOf(DynLine.quantity) - MatchedCount) * DynLine.unit_price
  /\ OneDeltaRow

\* The export users with their email fields already normalized.
NormalizedUsers ==
  [ i \in 1..Len(users) |-> [ users[i] EXCEPT !.email = NormalizeEmail(@) ] ]

SameAllocation(a, b) ==
  /\ a.line_rows = b.line_rows
  /\ a.user_rows = b.user_rows
  /\ a.warnings = b.warnings

\* C8: build_integricom_user_allocations and parse_adobe_csv return, for
\* export users whose email fields differ from their normalized form by
\* case or surrounding whitespace, the rows, matched counts and per-user
\* totals they return for the normalized emails.
C8_AsStated ==
  /\ (vendor_type = "integricom" /\ phase = "analyzed") =>
       SameAllocation(allocation,
                      BuildIntegricomUserAllocations(NormalizedUsers,
                                                     user_directory,
                                                     invoice_lines,
                                                     analyzed_updates))
  /\ (vendor_type = "adobe" /\ adobe_parsed # NoParse) =>
       adobe_parsed.rows =
         ParseAdobeCsv(NormalizedUsers, user_directory, per_license_cost).rows

\* branch.strip() is empty.
BlankBranch(branch) == Strip(branch) = ""

NoBlankRow(line_rows) ==
  \A i \in 1..Len(line_rows) : ~BlankBranch(line_rows[i].branch)

BlankUsersUnresolved(result) ==
  \A e \in DOMAIN result.user_rows :
    BlankBranch(result.user_rows[e].branch) =>
      e \in Range(result.unresolved_emails)

\* C9: no allocation row of build_adobe_user_allocations,
\* build_integricom_user_allocations or build_integricom_support_allocations
\* has an empty or whitespace-only branch, and a user whose branch is blank
\* is listed in unresolved_emails.
C9_AsStated ==
  /\ NoBlankRow(adobe_allocation.line_rows)
  /\ NoBlankRow(allocation.line_rows)
  /\ NoBlankRow(support_allocation.line_rows)
  /\ BlankUsersUnresolved(adobe_allocation)
  /\ BlankUsersUnresolved(allocation)

(***************************************************************************)
(* Vocabulary of the claims about build_breakdown.                         *)
(***************************************************************************)
RowOrders(n) ==
  { p \in [1..n -> 1..n] : \A i, j \in 1..n : p[i] = p[j] => i = j }

Permuted(seq, p) == [ i \in 1..Len(seq) |-> seq[p[i]] ]

\* The distinct (branch, license) pairs of the summarized rows.
PairsOf(seq) == { << seq[i].branch, seq[i].license >> : i \in 1..Len(seq) }

RECURSIVE SumOver(_, _)
SumOver(seq, S) ==
  IF S = { } THEN 0
  ELSE LET i == CHOOSE x \in S : TRUE
       IN  seq[i].amount + SumOver(seq, S \ { i })

\* The exact sum of the amounts of the rows with the given pair.
ExactSum(seq, pair) ==
  SumOver(seq, { i \in 1..Len(seq) :
                   << seq[i].branch, seq[i].license >> = pair })

OnePerPair ==
  /\ Len(summary) = Cardinality(PairsOf(summarized))
  /\ \A i \in 1..Len(summary) :
       << summary[i].branch, summary[i].license >> \in PairsOf(summarized)

SortedByPair ==
  \A i \in 1..(Len(summary) - 1) :
    KeyLess(<< summary[i].branch, summary[i].license >>,
            << summary[i + 1].branch, summary[i + 1].license >>)

QuantizedOnce ==
  \A i \in 1..Len(summary) :
    summary[i].total_amount =
      Quantize(ExactSum(summarized, << summary[i].branch, summary[i].license >>))

\* C10: build_breakdown returns the same summary for every permutation of
\* its rows; the summary has exactly one row per distinct (branch, license)
\* pair, sorted by (branch, license), and each total_amount is the exact sum
\* of the matching amounts quantized to cents once.
C10_BreakdownOrderIndependent ==
  /\ \A p \in RowOrders(Len(summarized)) :
       BuildBreakdown(Permuted(summarized, p)) = summary
  /\ OnePerPair
  /\ SortedByPair
  /\ QuantizedOnce

\* Three summarized rows over two pairs given out of order, two of which are
\* half-cent amounts of one pair that only add up to a cent when summed
\* before rounding.
C10_Witness ==
  /\ Len(summarized) = 3
  /\ Len(summary) = 2
  /\ summarized[1].branch = "Home Office"
  /\ summarized[2].branch = "Canton"
  /\ summarized[1].amount = 5
  /\ summarized[3].amount = 5
  /\ << summarized[3].branch, summarized[3].license >>
       = << summarized[1].branch, summarized[1].license >>
  /\ summary[2].total_amount = 10

(***************************************************************************)
(* Vocabulary of the claims about analyze passes.                          *)
(***************************************************************************)
\* The emails the session's caller submitted corrections for.
CorrectedEmails(sess) ==
  { NormalizeEmail(sess.submitted_updates[i].email) :
      i \in 1..Len(sess.submitted_updates) }

\* C4: a pass whose allocation returned unresolved emails or pending branch
\* prompts has not called touch_seen_users / touch_seen_integricom_users;
\* the touch happens only in a pass where both lists are empty.
C4_TouchOnlyWhenResolved ==
  \A s \in Sessions :
    session[s].touched =>
      /\ session[s].unresolved_emails = << >>
      /\ session[s].unresolved_branch_prompts = << >>

\* An Integricom pass that answered its branch prompt has touched the
\* directory, while an Adobe pass with an unresolved email has returned
\* without touching it.
C4_Witness ==
  \E s, t \in Sessions :
    /\ session[s].vendor = "integricom"
    /\ session[s].submitted_branch_item_updates # << >>
    /\ session[s].invoice_lines[1].canonical_name = "NetWatch360 Managed Firewall"
    /\ session[s].touched
    /\ integricom_users["ann@x.com"].is_active
    /\ session[t].vendor = "adobe"
    /\ session[t].pc = "returned"
    /\ session[t].unresolved_emails # << >>
    /\ ~session[t].touched

\* C5: an Integricom pass that ends not finalized has inserted no directory
\* row other than rows for the emails of its submitted corrections.
C5_AsStated ==
  \A s \in Sessions :
    (session[s].vendor = "integricom" /\ session[s].pc = "returned") =>
      session[s].inserted \subseteq CorrectedEmails(session[s])

\* One Integricom pass run alone on a table: corrections, listing, seed.
SerialCorrected(table, sess) ==
  upsert_integricom_users(InitDirectory(table),
                          CorrectionsToWrite(sess.submitted_updates), clock)

SerialSeeded(corrected, sess) ==
  upsert_integricom_users(corrected,
                          SeedUsers(sess.export_users, ListUsers(corrected)),
                          clock)

SerialPass(table, sess) == SerialSeeded(SerialCorrected(table, sess), sess)

StoredBranch(table, email) ==
  IF email \in DOMAIN table THEN table[email].branch ELSE None

\* Both sessions are in their first pass, both passes are Integricom passes,
\* and both have made all their directory writes that set a branch.
BothSeeded ==
  /\ passes = 2
  /\ \A s \in Sessions :
       /\ session[s].vendor = "integricom"
       /\ session[s].pass_no = 1
       /\ session[s].pc \in { "seeded", "allocating", "returned", "finalizing",
                              "finalized" }

\* C6: after two concurrent Integricom passes, each email's stored branch is
\* the branch one of the two serial executions of the passes would leave.
C6_AsStated ==
  BothSeeded =>
    \A email \in { "ann@x.com" } :
      StoredBranch(integricom_users, email) \in
        { StoredBranch(SerialPass(SerialPass(table0, session["s1"]),
                                  session["s2"]), email),
          StoredBranch(SerialPass(SerialPass(table0, session["s2"]),
                                  session["s1"]), email) }

(***************************************************************************)
(* C11: apply_home_office_adjustment.                                      *)
(***************************************************************************)
IsTargetRow(r) ==
  r.branch = ADOBE_HOME_OFFICE /\ r.license = adjusted.license_name

TargetRows(summary_rows) == SelectSeq(summary_rows, IsTargetRow)

OtherRows(summary_rows) ==
  SelectSeq(summary_rows, LAMBDA r : ~IsTargetRow(r))

\* The total of the target row before the call, 0 when there is none.
TargetBefore ==
  IF TargetRows(summary) = << >> THEN 0
  ELSE TargetRows(summary)[1].total_amount

\* The rows other than the target row are those of the input, and the one
\* target row of the result holds the given total.
OnlyTargetBecomes(total) ==
  /\ OtherRows(adjusted.summary) = OtherRows(summary)
  /\ Len(TargetRows(adjusted.summary)) = 1
  /\ TargetRows(adjusted.summary)[1].total_amount = total

Parsed == export_parse.filename # ""

RowEmail(i) == NormalizeEmail(csv_rows[i].email)

RowTokens(i) ==
  LicenseTokens(StripPieces(csv_rows[i].licenses),
                IF vendor_type = "integricom" THEN "+" ELSE ",")

IsGuestRow(i) == Contains("#ext#", RowEmail(i))

\* Row i has no usable tokens, or is the "unlicensed" marker.
IsUnlicensedRow(i) ==
  RowTokens(i) = << >> \/ IsUnlicensed(StripPieces(csv_rows[i].licenses))

\* The warnings about data row i (line i + 1 of the file).
RowWarnings(i) ==
  SelectSeq(export_parse.warnings, LAMBDA w : w.line_number = i + 1)

\* The rows the claim says are skipped.
StatedSkips == { i \in 1..Len(csv_rows) : IsGuestRow(i) \/ IsUnlicensedRow(i) }

\* C12 as stated: a row without usable tokens, with the "unlicensed" marker
\* or with a guest email is skipped, so that at most the other rows are
\* emitted as users; a guest skip adds no warning and every other skip adds
\* exactly one warning for the row.
C12_AsStated ==
  Parsed =>
    /\ Len(export_parse.users) <= Len(csv_rows) - Cardinality(StatedSkips)
    /\ \A i \in StatedSkips :
         Len(RowWarnings(i)) = (IF IsGuestRow(i) THEN 0 ELSE 1)

\* The rows each parser skips.
Skips(i) ==
  IF vendor_type = "integricom"
    THEN RowEmail(i) = "" \/ IsGuestRow(i) \/ IsUnlicensedRow(i)
    ELSE RowEmail(i) = ""

\* The indices of the rows that are kept, in file order.
KeptRows ==
  SelectSeq([ i \in 1..Len(csv_rows) |-> i ], LAMBDA i : ~Skips(i))

UserTokens(user) ==
  IF vendor_type = "integricom" THEN user.licenses ELSE user.products

\* C12: parse_integricom_export_csv skips a row whose email is blank or
\* holds "#ext#", or whose license field has no usable token or is the
\* "unlicensed" marker; parse_adobe_export_csv skips only a row whose email
\* is blank.  Every other row is emitted as a user, in file order, with its
\* normalized email and its tokens; rows_skipped counts the skipped rows;
\* a skip for a blank email adds exactly one warning for the row, and no
\* other row gets a warning.
C12_ExportSkips ==
  Parsed =>
    /\ Len(export_parse.users) = Len(KeptRows)
    /\ \A j \in 1..Len(KeptRows) :
         /\ j <= Len(export_parse.users)
         /\ export_parse.users[j].email = RowEmail(KeptRows[j])
         /\ UserTokens(export_parse.users[j]) = RowTokens(KeptRows[j])
    /\ export_parse.rows_skipped = Len(csv_rows) - Len(KeptRows)
    /\ \A i \in 1..Len(csv_rows) :
         Len(RowWarnings(i)) = (IF RowEmail(i) = "" THEN 1 ELSE 0)

\* An Integricom export with an unlicensed row of a named user and a guest
\* row has been parsed.
C12_Witness ==
  /\ Parsed
  /\ vendor_type = "integricom"
  /\ \E i, k \in 1..Len(csv_rows) :
       /\ RowEmail(i) # "" /\ ~IsGuestRow(i) /\ IsUnlicensedRow(i)
       /\ IsGuestRow(k)

(***************************************************************************)
(* Vocabulary of the claims about the Adobe allocation functions.          *)
(***************************************************************************)
\* build_adobe_user_allocations has run on the inputs of the state.
AdobeRan == vendor_type = "adobe" /\ phase = "analyzed"

\* parse_adobe_csv has run on the inputs of the state.
AdobeParsed == vendor_type = "adobe" /\ adobe_parsed.filename # ""

Unmapped(token) == CanonicalAdobeProduct(token) = None

\* The unmapped tokens carried by the users at the given positions.
UnmappedOf(positions) ==
  { t \in UNION { Range(users[i].products) : i \in positions } : Unmapped(t) }

\* The number of warnings about the unmapped token.
UnmappedWarnings(warnings, token) ==
  Len(SelectSeq(warnings, LAMBDA w : w.kind = "unrecognized_product"
                                      /\ w.name = token))

\* The price of a token: that of its canonical product on the invoice, 0
\* when it is unmapped or not priced.
TokenCost(token) ==
  IF ~Unmapped(token) /\ CanonicalAdobeProduct(token) \in DOMAIN per_license_cost
    THEN per_license_cost[CanonicalAdobeProduct(token)]
    ELSE 0

RECURSIVE TokenCosts(_)
TokenCosts(products) ==
  IF products = << >> THEN 0
  ELSE TokenCost(Head(products)) + TokenCosts(Tail(products))

\* The priced licenses of the export rows 1..i of the user with this email.
RECURSIVE PricedTotal(_, _)
PricedTotal(i, email) ==
  IF i = 0 THEN 0
  ELSE PricedTotal(i - 1, email)
       + (IF NormalizeEmail(users[i].email) = email
            THEN TokenCosts(users[i].products) ELSE 0)

\* No row is posted for an unmapped or unpriced product.
RowsArePriced(line_rows) ==
  \A j \in 1..Len(line_rows) : line_rows[j].license \in DOMAIN per_license_cost

\* Every user total is the sum of the user's priced licenses.
TotalsArePriced ==
  \A e \in DOMAIN adobe_allocation.user_rows :
    adobe_allocation.user_rows[e].user_total
      = Quantize(PricedTotal(Len(users), e))

\* C13 as stated: in build_adobe_user_allocations and parse_adobe_csv every
\* unmapped product token of the run has exactly one warning, and adds
\* nothing to an allocation row or a user total.
C13_AsStated ==
  /\ AdobeRan =>
       /\ \A t \in UnmappedOf(1..Len(users)) :
            UnmappedWarnings(adobe_allocation.warnings, t) = 1
       /\ RowsArePriced(adobe_allocation.line_rows)
       /\ TotalsArePriced
  /\ AdobeParsed =>
       /\ \A t \in UnmappedOf(1..Len(users)) :
            UnmappedWarnings(adobe_parsed.warnings, t) = 1
       /\ RowsArePriced(adobe_parsed.rows)

\* The users whose products build_adobe_user_allocations reads.
ReadByBuild == { i \in 1..Len(users) : NormalizeEmail(users[i].email) # "" }

\* The users whose products parse_adobe_csv reads.
ReadByParse == { i \in 1..Len(users) : users[i].email \in DOMAIN user_directory }

\* C13: every unmapped product token of a user whose products the function
\* reads (build_adobe_user_allocations: a user with an email;
\* parse_adobe_csv: a user found in the directory under the email as given)
\* has exactly one warning, however many users or rows carry it; an unmapped
\* token carried only by other users has none; and no unmapped token adds
\* to an allocation row or a user total.
C13_UnmappedWarnedOnce ==
  /\ AdobeRan =>
       /\ \A t \in UnmappedOf(1..Len(users)) :
            UnmappedWarnings(adobe_allocation.warnings, t)
              = (IF t \in UnmappedOf(ReadByBuild) THEN 1 ELSE 0)
       /\ RowsArePriced(adobe_allocation.line_rows)
       /\ TotalsArePriced
  /\ AdobeParsed =>
       /\ \A t \in UnmappedOf(1..Len(users)) :
            UnmappedWarnings(adobe_parsed.warnings, t)
              = (IF t \in UnmappedOf(ReadByParse) THEN 1 ELSE 0)
       /\ RowsArePriced(adobe_parsed.rows)

\* Both functions have run on two users that carry the same unmapped token,
\* one of them a second unmapped token as well.
C13_Witness ==
  /\ AdobeRan
  /\ AdobeParsed
  /\ Cardinality(UnmappedOf(ReadByParse)) = 2
  /\ \E i, j \in ReadByParse :
       i # j /\ "Mystery App" \in Range(users[i].products)
             /\ "Mystery App" \in Range(users[j].products)

(***************************************************************************)
(* C14: the analyze endpoint without CSV export files.                     *)
(***************************************************************************)
NoCsv == api_request.csv_files = NoCsvFiles

\* C14: a request with vendor_type "integricom", an invoice file and no CSV
\* export files is handed to _analyze_integricom, and one with vendor_type
\* "generic" and no CSV files fails with HTTP 400 "At least one CSV export
\* file is required.".
C14_AsStated ==
  api_response # NoResponse =>
    /\ (api_request.vendor_type = "integricom" /\ NoCsv
          /\ api_request.invoice_file # None) =>
         api_response = HandledBy("_analyze_integricom")
    /\ (api_request.vendor_type = "generic" /\ NoCsv) => api_response = CsvRequired

(***************************************************************************)
(* C15: the directory upsert.                                              *)
(***************************************************************************)
\* The columns the claim compares: all but updated_at and last_seen_at.
StoredRows(table) ==
  [ e \in DOMAIN table |->
      [ first_name |-> table[e].first_name, last_name |-> table[e].last_name,
        branch |-> table[e].branch, is_active |-> table[e].is_active,
        created_at |-> table[e].created_at ] ]

\* The payload rows that carry an email and a branch.
WrittenItems(payload) ==
  { payload[i] : i \in { j \in DOMAIN payload :
      NormalizeEmail(Get(payload[j], "email")) # ""
        /\ Strip(Get(payload[j], "branch")) # "" } }

WrittenEmails(payload) ==
  { NormalizeEmail(item.email) : item \in WrittenItems(payload) }

DirectoryTable == TableOf(DirectoryVendor)

\* C15: after upsert_integricom_users / upsert_adobe_users has run on a
\* payload, the stored keys are the old keys and the normalized emails of
\* the payload rows that carry an email and a branch; a row no such payload
\* row addresses is unchanged in every column (so a payload row with a blank
\* branch changes nothing); and after the same call has run a second time,
\* at the same or a later second, the rows agree with those after the first
\* run in email, first_name, last_name, branch, is_active and created_at.
C15_UpsertIdempotent ==
  (vendor_type \in { "integricom directory", "adobe directory" }
     /\ upserted.runs >= 1) =>
    /\ DOMAIN DirectoryTable =
         DOMAIN upserted.before \cup WrittenEmails(upserted.payload)
    /\ \A e \in DOMAIN DirectoryTable : NormalizeEmail(e) = e
    /\ \A e \in DOMAIN upserted.before \ WrittenEmails(upserted.payload) :
         DirectoryTable[e] = upserted.before[e]
    /\ upserted.runs = 2 =>
         StoredRows(DirectoryTable) = StoredRows(upserted.once)

\* The payload spells the email of a stored person with a capital and a
\* leading blank and has a row with a blank branch; the second run came at
\* a later second than the first, so updated_at moved on.
C15_Witness ==
  /\ vendor_type \in { "integricom directory", "adobe directory" }
  /\ upserted.runs = 2
  /\ "ann@x.com" \in DOMAIN upserted.before
  /\ \E j, k \in DOMAIN upserted.payload :
       /\ upserted.payload[j].email = " Ann@X.com"
       /\ Strip(upserted.payload[j].branch) # ""
       /\ Strip(upserted.payload[k].branch) = ""
  /\ DirectoryTable["ann@x.com"].updated_at
       > upserted.once["ann@x.com"].updated_at
  /\ DirectoryTable["ann@x.com"].created_at = 0

(***************************************************************************)
(* C16: the key of an invoice line.                                        *)
(***************************************************************************)
\* The line_keys of the prompts a pass returned for the i-th line.
KeysOfLine(pass, i) == { pair[2] : pair \in { q \in pass : q[1] = i } }

AllIssued == UNION Range(issued)

\* C16: in every pass over an invoice, whatever the users, the directory
\* and the answers submitted so far, a prompt returned for the i-th line
\* carries the key of ordinal i and the line's canonical name (the pair
\* that stands for "<i>:<canonical_name>"; the text determines the pair, as
\* the ordinal is written in digits before the first colon); so all passes
\* give a line the same key, prompts of different lines never share a key,
\* and the prompts of the last pass carry no other keys.
C16_LineKeyIdentity ==
  vendor_type = "integricom keys" =>
    /\ \A pair \in AllIssued :
         pair[2] = LineKey(pair[1], invoice_lines[pair[1]].canonical_name)
    /\ \A a, b \in AllIssued : (a[2] = b[2]) <=> (a[1] = b[1])
    /\ phase = "analyzed" =>
         { allocation.unresolved_branch_prompts[k].line_key :
             k \in DOMAIN allocation.unresolved_branch_prompts }
           = { pair[2] : pair \in issued[Len(issued)] }

\* Two lines of the same name with export users and a directory: the first
\* pass prompted for both lines, the answer for the first line was accepted,
\* and the second pass prompts for the second line under the key the first
\* pass gave it.
C16_Witness ==
  /\ vendor_type = "integricom keys"
  /\ phase = "analyzed"
  /\ Len(issued) = 2
  /\ Len(invoice_lines) = 2
  /\ invoice_lines[1].canonical_name = invoice_lines[2].canonical_name
  /\ users # << >>
  /\ user_directory # << >>
  /\ KeysOfLine(issued[1], 1) # { }
  /\ KeysOfLine(issued[1], 2) # { }
  /\ KeysOfLine(issued[2], 1) = { }
  /\ KeysOfLine(issued[2], 2) = KeysOfLine(issued[1], 2)
  /\ Len(allocation.unresolved_branch_prompts) = 1

(***************************************************************************)
(* C17: the review state of support blocks.                                *)
(***************************************************************************)
SupportRan == vendor_type = "integricom_support" /\ phase = "analyzed"

\* The support rows returned for the i-th block.
RowsOfBlock(i) ==
  SelectSeq(support_allocation.support_rows,
            LAMBDA r : r.row_key = blocks[i].row_key)

\* The positions of the submitted updates for the i-th block.
UpdatesFor(i) ==
  { k \in DOMAIN support_updates : support_updates[k].row_key = blocks[i].row_key }

\* The branch of the last of them.
SubmittedFor(i) == Strip(support_updates[MaxOf(UpdatesFor(i))].branch)

KnownBranchIn(charge_summary) ==
  \E k \in DOMAIN INTEGRICOM_KNOWN_BRANCHES :
    /\ INTEGRICOM_KNOWN_BRANCHES[k] # INTEGRICOM_HOME_OFFICE
    /\ Contains(Lower(INTEGRICOM_KNOWN_BRANCHES[k]), Lower(charge_summary))

Flagged(i) ==
  ~KnownBranchIn(blocks[i].charge_summary) /\ UpdatesFor(i) = { }

\* What the claim says of the i-th block when an update names branch b.
PostedTo(i, b) ==
  /\ RowsOfBlock(i)[1].branch = b
  /\ RowsOfBlock(i)[1].confidence = "user"
  /\ ~RowsOfBlock(i)[1].needs_review
  /\ support_allocation.line_rows[i].branch = b

OneRowPerBlock ==
  /\ Len(support_allocation.line_rows) = Len(blocks)
  /\ \A i \in DOMAIN blocks :
       /\ Len(RowsOfBlock(i)) = 1
       /\ support_allocation.line_rows[i].amount = blocks[i].amount
       /\ support_allocation.line_rows[i].license =
            SupportLicense(blocks[i].charge_summary)

\* C17: after build_integricom_support_allocations, a block is flagged
\* needs_review exactly when its charge summary holds no known branch other
\* than Home Office and no update for its row_key was submitted; a block
\* with a submitted update is posted to the submitted branch with
\* confidence "user" and needs_review false; the low-confidence warning is
\* there exactly when some block is flagged; and every block has exactly one
\* allocation row, of the block's amount.
C17_AsStated ==
  SupportRan =>
    /\ OneRowPerBlock
    /\ \A i \in DOMAIN blocks :
         /\ RowsOfBlock(i)[1].needs_review <=> Flagged(i)
         /\ UpdatesFor(i) # { } => PostedTo(i, SubmittedFor(i))
    /\ (support_allocation.warnings # << >>)
         <=> (\E i \in DOMAIN blocks : Flagged(i))

\* The first known branch other than Home Office named in the summary of
\* the i-th block, or Home Office.
InferredFor(i) ==
  IF KnownBranchIn(blocks[i].charge_summary)
    THEN INTEGRICOM_KNOWN_BRANCHES[
           CHOOSE k \in DOMAIN INTEGRICOM_KNOWN_BRANCHES :
             /\ INTEGRICOM_KNOWN_BRANCHES[k] # INTEGRICOM_HOME_OFFICE
             /\ Contains(Lower(INTEGRICOM_KNOWN_BRANCHES[k]),
                         Lower(blocks[i].charge_summary))
             /\ \A j \in 1..(k - 1) :
                  \/ INTEGRICOM_KNOWN_BRANCHES[j] = INTEGRICOM_HOME_OFFICE
                  \/ ~Contains(Lower(INTEGRICOM_KNOWN_BRANCHES[j]),
                               Lower(blocks[i].charge_summary)) ]
    ELSE INTEGRICOM_HOME_OFFICE

\* C17, amended: as stated, except that a block whose submitted update
\* names a blank branch is posted to the inferred branch (the first known
\* branch in its summary, or Home Office), still with confidence "user" and
\* needs_review false; and a block without update is posted to the
\* inferred branch.
C17_SupportReview ==
  SupportRan =>
    /\ OneRowPerBlock
    /\ \A i \in DOMAIN blocks :
         /\ RowsOfBlock(i)[1].needs_review <=> Flagged(i)
         /\ UpdatesFor(i) # { } =>
              PostedTo(i, StrOr(SubmittedFor(i), InferredFor(i)))
         /\ UpdatesFor(i) = { } =>
              /\ support_allocation.line_rows[i].branch = InferredFor(i)
              /\ RowsOfBlock(i)[1].branch = InferredFor(i)
              /\ RowsOfBlock(i)[1].confidence # "user"
    /\ (support_allocation.warnings # << >>)
         <=> (\E i \in DOMAIN blocks : Flagged(i))

\* Two blocks without a branch in their summaries: the first was answered
\* with a blank branch and went to Home Office unflagged, the second is
\* flagged, warned about and listed first.
C17_Witness ==
  /\ SupportRan
  /\ Len(blocks) = 2
  /\ ~KnownBranchIn(blocks[1].charge_summary)
  /\ ~KnownBranchIn(blocks[2].charge_summary)
  /\ UpdatesFor(1) # { }
  /\ SubmittedFor(1) = ""
  /\ UpdatesFor(2) = { }
  /\ RowsOfBlock(1)[1].branch = INTEGRICOM_HOME_OFFICE
  /\ RowsOfBlock(1)[1].confidence = "user"
  /\ ~RowsOfBlock(1)[1].needs_review
  /\ support_allocation.support_rows[1].row_key = blocks[2].row_key
  /\ support_allocation.support_rows[1].needs_review
  /\ support_allocation.warnings # << >>

(***************************************************************************)
(* C18: Adobe users without a directory branch.                            *)
(***************************************************************************)
\* The directory branch of an email, "" when the directory has no row.
DirectoryBranch(email) ==
  IF email \in DOMAIN user_directory THEN user_directory[email].branch ELSE ""

Priced(token) ==
  ~Unmapped(token) /\ CanonicalAdobeProduct(token) \in DOMAIN per_license_cost

\* One allocation row per priced license of the i-th export row, on the
\* directory branch of its user; none when there is no branch.
RowsOfExportRow(i) ==
  IF DirectoryBranch(NormalizeEmail(users[i].email)) = ""
    THEN << >>
    ELSE [ k \in 1..Len(SelectSeq(users[i].products, Priced)) |->
             AllocationRow(
               users[i].source_file,
               DirectoryBranch(NormalizeEmail(users[i].email)),
               CanonicalAdobeProduct(SelectSeq(users[i].products, Priced)[k]),
               TokenCost(SelectSeq(users[i].products, Priced)[k])) ]

RECURSIVE RowsOfExportRows(_)
RowsOfExportRows(i) ==
  IF i = 0 THEN << >> ELSE RowsOfExportRows(i - 1) \o RowsOfExportRow(i)

\* The recognized licenses of the user with this email.
Recognized(email) ==
  { CanonicalAdobeProduct(t) :
      t \in { u \in UNION { Range(users[i].products) :
                              i \in { j \in 1..Len(users) :
                                        NormalizeEmail(users[j].email) = email } } :
                ~Unmapped(u) } }

TimesListed(email) ==
  Len(SelectSeq(adobe_allocation.unresolved_emails, LAMBDA e : e = email))

\* What the claim says of the user with this email.
UserSettled(email) ==
  /\ email \in DOMAIN adobe_allocation.user_rows
  /\ Range(adobe_allocation.user_rows[email].licenses) = Recognized(email)
  /\ Len(adobe_allocation.user_rows[email].licenses)
       = Cardinality(Recognized(email))
  /\ adobe_allocation.user_rows[email].user_total
       = Quantize(PricedTotal(Len(users), email))
  /\ TimesListed(email) = (IF DirectoryBranch(email) = "" THEN 1 ELSE 0)

AcceptedExtras(i) ==
  SelectSeq([ p \in 1..Max(Extras(i), 0) |-> p ], LAMBDA p : Accepted(i, p))

\* The branches that got a unit of line i: the first min(max(Q, 0), N)
\* template branches, then the accepted answers.
AssignedBranches(i) ==
  SubSeq(TemplateOf(i), 1, Min(Max(QtyOf(i), 0), Len(TemplateOf(i))))
  \o [ k \in 1..Len(AcceptedExtras(i)) |->
         SubmittedBranch(KeyOf(i), AcceptedExtras(i)[k]) ]

UnitRowsOf(i) ==
  [ k \in 1..Len(AssignedBranches(i)) |-> UnitRow(i, AssignedBranches(i)[k]) ]

\* The residual row, when it is due: no prompt of the line is pending and
\* the residual is not zero.
ResidualDue(i) ==
  IF LinePrompts(i) = << >>
     /\ ResidualRow(i, Len(AssignedBranches(i))).amount # 0
    THEN << ResidualRow(i, Len(AssignedBranches(i))) >>
    ELSE << >>

\* C19 as stated: the rows of a sequentially distributed line are one unit
\* row for each template branch used and each accepted extra, pending
\* prompts or not, followed by the residual row on Home Office exactly when
\* no prompt of the line is pending and the residual (amount - unit_price x
\* assigned units) is not zero.
C19_AsStated ==
  \A i \in 1..Len(invoice_lines) :
    SequentialLine(i) => LineRows(i) = UnitRowsOf(i) \o ResidualDue(i)

\* C19, amended: the same, except that with a unit price of zero no unit
\* row is returned (a row of amount zero is never posted), so that the rows
\* of the line are the residual row alone, or none.
C19_ResidualPosting ==
  \A i \in 1..Len(invoice_lines) :
    SequentialLine(i) =>
      LineRows(i) =
        (IF UnitOf(i) # 0 THEN UnitRowsOf(i) ELSE << >>) \o ResidualDue(i)

\* Two extra units, the first answered and accepted, the second pending,
\* and an amount that leaves a residual: the template's unit rows and the
\* accepted extra's unit row are returned, the residual row is not.
C19_Witness ==
  \E i \in 1..Len(invoice_lines) :
    /\ SequentialLine(i)
    /\ Extras(i) = 2
    /\ UnitOf(i) # 0
    /\ AcceptedExtras(i) = << 1 >>
    /\ Len(LinePrompts(i)) = 1
    /\ ResidualRow(i, Len(AssignedBranches(i))).amount # 0
    /\ Len(LineRows(i)) = Len(TemplateOf(i)) + 1
    /\ LineRows(i)[Len(LineRows(i))]
         = UnitRow(i, SubmittedBranch(KeyOf(i), 1))

(***************************************************************************)
(* C20: the reconciliation row and the reconciliation warning.             *)
(***************************************************************************)
\* A pass over an invoice whose first line is a dynamic line.
DynamicRan ==
  /\ vendor_type = "integricom"
  /\ phase = "analyzed"
  /\ invoice_lines # << >>
  /\ DynLine.canonical_name \in dynamic_licenses

\* C20: for a dynamic line a reconciliation row is posted to Home Office
\* exactly when amount - unit_price x matched_count is not zero, and the
\* warnings name the line in a reconciliation warning exactly when that row
\* is posted, also when int(quantity) equals matched_count.
C20_AsStated ==
  DynamicRan =>
    /\ (DeltaRows # << >>) <=> (ExpectedDelta # 0)
    /\ (DeltaRows # << >>) <=> WarningNamesLine

(***************************************************************************)
(* C21: the split rule of the main-office firewall subscription.           *)
(***************************************************************************)
\* The pass has run over parsed lines and line i is the only one of its
\* name.
RulesRan(i) ==
  /\ vendor_type = "integricom rules"
  /\ phase = "analyzed"
  /\ i \in 1..Len(invoice_lines)
  /\ NameOnce(i)

SplitLine(i) ==
  /\ RulesRan(i)
  /\ invoice_lines[i].canonical_name
       = "Firewall Security Subscription Main Office"

\* The warnings of the given kind that name line i.
WarningsOf(i, kind) ==
  SelectSeq(allocation.warnings,
            LAMBDA w : IF w.kind = kind
                         THEN w.name = invoice_lines[i].canonical_name
                         ELSE FALSE)

RowOf(i, branch, amount) ==
  [ source_file |-> "invoice", branch |-> branch,
    license |-> invoice_lines[i].canonical_name, amount |-> amount ]

\* The rows of line i add up to this amount.
RowsSum(i) == SumOver(LineRows(i), DOMAIN LineRows(i))

\* C21: a main-office firewall subscription line of amount >= 97.00 posts
\* exactly 97.00 to Sugar Hill and amount - 97.00 to Home Office (no Home
\* Office row when that is zero) without a warning; a line of amount below
\* 97.00 posts the whole amount to Home Office, nothing to Sugar Hill, and
\* the baseline warning is emitted; either way the rows add up to amount.
C21_SplitThreshold ==
  \A i \in 1..Len(invoice_lines) :
    SplitLine(i) =>
      LET amount == invoice_lines[i].amount
      IN  /\ RowsSum(i) = amount
          /\ \A k \in 1..Len(LineRows(i)) :
               LineRows(i)[k].branch \in { "Sugar Hill", INTEGRICOM_HOME_OFFICE }
          /\ amount >= SUGAR_HILL_AMOUNT =>
               /\ RowsOn(i, "Sugar Hill")
                    = << RowOf(i, "Sugar Hill", SUGAR_HILL_AMOUNT) >>
               /\ RowsOn(i, INTEGRICOM_HOME_OFFICE)
                    = IF amount = SUGAR_HILL_AMOUNT THEN << >>
                      ELSE << RowOf(i, INTEGRICOM_HOME_OFFICE,
                                    amount - SUGAR_HILL_AMOUNT) >>
               /\ WarningsOf(i, "below_split_baseline") = << >>
          /\ amount < SUGAR_HILL_AMOUNT =>
               /\ RowsOn(i, "Sugar Hill") = << >>
               /\ RowsOn(i, INTEGRICOM_HOME_OFFICE)
                    = IF amount = 0 THEN << >>
                      ELSE << RowOf(i, INTEGRICOM_HOME_OFFICE, amount) >>
               /\ Len(WarningsOf(i, "below_split_baseline")) = 1

\* A line of 150.00 was split into 97.00 for Sugar Hill and 53.00 for Home
\* Office.
C21_Witness ==
  /\ SplitLine(1)
  /\ invoice_lines[1].amount = 150000
  /\ LineRows(1) = << RowOf(1, "Sugar Hill", 97000),
                      RowOf(1, INTEGRICOM_HOME_OFFICE, 53000) >>
  /\ WarningsOf(1, "below_split_baseline") = << >>

\* The same line at 50.00: everything on Home Office, with the warning.
C21_BelowBaseline ==
  /\ SplitLine(1)
  /\ invoice_lines[1].amount = 50000
  /\ LineRows(1) = << RowOf(1, INTEGRICOM_HOME_OFFICE, 50000) >>
  /\ Len(WarningsOf(1, "below_split_baseline")) = 1

(***************************************************************************)
(* C22: lines without an allocation rule.                                  *)
(***************************************************************************)
\* The names posted whole to one branch.
WholeNames ==
  fixed_home_office
  \cup { "NetWatch360 Managed Network Device",
         "Firewall Security Subscription Latest 2025", "Project Plan 3" }

SplitNames == { "Firewall Security Subscription Main Office" }

\* No rule names the canonical name.
Unrecognized(name) ==
  name \notin dynamic_licenses \cup WholeNames \cup SequentialNames \cup SplitNames

\* The policies that left their mark on line i in the last pass: the rule
\* sets its name is in, and the fallback when its warning was emitted.
PoliciesOf(i) ==
  LET name == invoice_lines[i].canonical_name
  IN  { p \in { "dynamic", "whole", "sequence", "split", "fallback" } :
          \/ p = "dynamic" /\ name \in dynamic_licenses
          \/ p = "whole" /\ name \in WholeNames
          \/ p = "sequence" /\ name \in SequentialNames
          \/ p = "split" /\ name \in SplitNames
          \/ p = "fallback" /\ WarningsOf(i, "no_rule") # << >> }

\* Rows, warnings and prompts of line i are those of a fallback line; a
\* line of amount 0.00 has no row.
FallbackOutcome(i, posted) ==
  /\ LineRows(i) = posted
  /\ Len(WarningsOf(i, "no_rule")) = 1
  /\ LinePrompts(i) = << >>
  /\ WarningsOf(i, "quantity_mismatch") = << >>

\* C22 as stated: a line no rule names is posted whole to Home Office in a
\* single row, with a warning naming it, and every line is handled by
\* exactly one policy.
C22_AsStated ==
  \A i \in 1..Len(invoice_lines) :
    RulesRan(i) =>
      /\ Cardinality(PoliciesOf(i)) = 1
      /\ Unrecognized(invoice_lines[i].canonical_name) =>
           FallbackOutcome(i, << RowOf(i, INTEGRICOM_HOME_OFFICE,
                                       invoice_lines[i].amount) >>)

\* C22: a line no rule names is posted whole to Home Office in a single
\* row when its amount is not 0.00 and has no row when it is 0.00; the
\* warning naming the line is emitted either way, no prompt is raised for
\* it, and every line is handled by exactly one policy.
C22_UnrecognizedLine ==
  \A i \in 1..Len(invoice_lines) :
    RulesRan(i) =>
      /\ Cardinality(PoliciesOf(i)) = 1
      /\ Unrecognized(invoice_lines[i].canonical_name) =>
           FallbackOutcome(i, IF invoice_lines[i].amount = 0 THEN << >>
                              ELSE << RowOf(i, INTEGRICOM_HOME_OFFICE,
                                            invoice_lines[i].amount) >>)

\* "Managed Server" without "NetWatch360" meets no keyword rule and no
\* allocation rule: 50.00 on Home Office, with the warning.
C22_Witness ==
  /\ RulesRan(1)
  /\ invoice_lines[1].description = "Managed Server"
  /\ invoice_lines[1].canonical_name = "Managed Server"
  /\ LineRows(1) = << RowOf(1, INTEGRICOM_HOME_OFFICE, 50000) >>
  /\ Len(WarningsOf(1, "no_rule")) = 1
  /\ PoliciesOf(1) = { "fallback" }

(***************************************************************************)
(* C30: every name of the keyword rules has an allocation rule.            *)
(***************************************************************************)
\* The seat licences an export user can hold.
SeatLicenses ==
  { INTEGRICOM_LICENSE_BP, INTEGRICOM_LICENSE_P1, INTEGRICOM_LICENSE_P2,
    INTEGRICOM_LICENSE_F3, INTEGRICOM_LICENSE_TEAMS_ESSENTIALS }

\* Some licence makes _integricom_user_matches_rule true for the name.
HasPredicate(name) ==
  \E token \in SeatLicenses :
    IntegricomUserMatchesRule([ licenses |-> << token >> ], name)

\* The name of line i came from a keyword rule, not from the fall-through.
FromKeywordRule(i) ==
  KeywordRule(Lower(NormalizeIntegricomText(invoice_lines[i].description)))
    # None

\* The name is dynamic with a predicate, or has a fixed rule, and not both.
Covered(name) ==
  /\ name \in dynamic_licenses => HasPredicate(name)
  /\ name \in dynamic_licenses
       <=> name \notin WholeNames \cup SequentialNames \cup SplitNames

\* C30: every name the keyword rules of _canonical_integricom_line can
\* return is either in the dynamic-match set with a predicate that some
\* licence satisfies, or has an explicit rule in
\* _allocate_integricom_fixed_line, never both; a line that got its name
\* from a keyword rule never draws the 'no allocation rule' warning, and a
\* dynamic one is matched by the user who holds every seat licence.
C30_RuleCoverage ==
  /\ \A name \in KeywordNames : Covered(name)
  /\ \A i \in 1..Len(invoice_lines) :
       (RulesRan(i) /\ FromKeywordRule(i)) =>
         /\ invoice_lines[i].canonical_name \in KeywordNames
         /\ WarningsOf(i, "no_rule") = << >>
         /\ PoliciesOf(i) \in { { "dynamic" }, { "whole" }, { "sequence" },
                                { "split" } }
         /\ (invoice_lines[i].canonical_name \in dynamic_licenses
             /\ users # << >>) =>
              \A k \in 1..Len(users) :
                IntegricomUserMatchesRule(users[k],
                                          invoice_lines[i].canonical_name)

\* 'Teams Essentials' is a keyword-rule name with a fixed rule although the
\* licence of that name counts for Workstation: 50.00 on Home Office
\* without a warning.
C30_Witness ==
  /\ RulesRan(1)
  /\ users # << >>
  /\ invoice_lines[1].description = "Teams Essentials"
  /\ invoice_lines[1].canonical_name = "Microsoft Teams Essentials NCE Annual"
  /\ FromKeywordRule(1)
  /\ PoliciesOf(1) = { "whole" }
  /\ LineRows(1) = << RowOf(1, INTEGRICOM_HOME_OFFICE, 50000) >>
  /\ allocation.warnings = << >>

\* A dynamic keyword-rule line: 'Microsoft F3' is matched by the user's F3
\* licence and posts no fallback warning.
C30_DynamicReached ==
  /\ RulesRan(1)
  /\ users # << >>
  /\ invoice_lines[1].description = "Microsoft F3"
  /\ invoice_lines[1].canonical_name = "Microsoft F3 Annual"
  /\ PoliciesOf(1) = { "dynamic" }
  /\ allocation.user_rows # << >>

(***************************************************************************)
(* C27: the branches charged a unit of a sequentially distributed line.    *)
(***************************************************************************)
\* The rows of line i that charge a unit: all but the residual row.
ChargedUnits(i) ==
  SubSeq(LineRows(i), 1, Len(LineRows(i)) - Len(ResidualDue(i)))

\* The branches the line had before extra unit p was read: the template
\* branches used and the accepted answers to lower extra units.
AssignedBefore(i, p) ==
  SubSeq(TemplateOf(i), 1, Min(Max(QtyOf(i), 0), Len(TemplateOf(i))))
  \o [ k \in 1..Len(SelectSeq(AcceptedExtras(i), LAMBDA q : q < p)) |->
         SubmittedBranch(KeyOf(i), AcceptedExtras(i)[k]) ]

\* C27: in a pass the branches that receive a unit row of one sequentially
\* distributed line are pairwise distinct, and every branch accepted for an
\* extra unit is one of the available_branches a prompt for that unit
\* offers: a known branch not yet assigned to the line.
C27_AsStated ==
  \A i \in 1..Len(invoice_lines) :
    SequentialLine(i) =>
      /\ \A j, k \in 1..Len(ChargedUnits(i)) :
           ChargedUnits(i)[j].branch = ChargedUnits(i)[k].branch => j = k
      /\ \A p \in 1..Max(Extras(i), 0) :
           Accepted(i, p) =>
             SubmittedBranch(KeyOf(i), p)
               \in Range(available_branches(AssignedBefore(i, p)))

(***************************************************************************)
(* C28: answering what a pass asked for finalizes the next pass.           *)
(***************************************************************************)
\* The pass carries a correction with a branch for the email.
CorrectionFor(pass, email) ==
  \E j \in 1..Len(pass.submitted_updates) :
    /\ pass.submitted_updates[j].email = email
    /\ pass.submitted_updates[j].branch # ""

\* The branch the pass was given for (line_key, prompt_index), "" if none.
AnswerTo(pass, line_key, prompt_index) ==
  LET items == pass.submitted_branch_item_updates
      hits == { j \in 1..Len(items) :
                  /\ items[j].line_key = line_key
                  /\ items[j].prompt_index = prompt_index }
  IN  IF hits = { } THEN "" ELSE Strip(items[MaxOf(hits)].branch)

\* The next pass sends, for every unresolved email of the previous one, a
\* correction with a branch, and for every prompt of the previous one a
\* branch from the prompt's available_branches, no branch twice for the
\* prompts of a line.
ResolvesAll(prev, next) ==
  LET prompts == prev.unresolved_branch_prompts
  IN  /\ \A j \in 1..Len(prev.unresolved_emails) :
           CorrectionFor(next, prev.unresolved_emails[j])
      /\ \A j \in 1..Len(prompts) :
           AnswerTo(next, prompts[j].line_key, prompts[j].prompt_index)
             \in Range(prompts[j].available_branches)
      /\ \A a, b \in 1..Len(prompts) :
           (a # b /\ prompts[a].line_key = prompts[b].line_key) =>
             AnswerTo(next, prompts[a].line_key, prompts[a].prompt_index)
               # AnswerTo(next, prompts[b].line_key, prompts[b].prompt_index)

\* The previous pass asked for something.
AskedForInput(prev) ==
  prev.unresolved_emails # << >> \/ prev.unresolved_branch_prompts # << >>

\* The answers of the previous pass that it accepted are sent again.
Retains(prev, next) ==
  LET items == prev.submitted_branch_item_updates
      pending == { << prev.unresolved_branch_prompts[j].line_key,
                      prev.unresolved_branch_prompts[j].prompt_index >> :
                     j \in 1..Len(prev.unresolved_branch_prompts) }
  IN  \A j \in 1..Len(items) :
        << items[j].line_key, items[j].prompt_index >> \notin pending =>
          AnswerTo(next, items[j].line_key, items[j].prompt_index)
            = AnswerTo(prev, items[j].line_key, items[j].prompt_index)

\* No two answers the pass sends for one line name the same branch.
DistinctAnswers(pass) ==
  LET items == pass.submitted_branch_item_updates
  IN  \A a, b \in 1..Len(items) :
        (items[a].line_key = items[b].line_key
         /\ items[a].prompt_index # items[b].prompt_index) =>
          Strip(items[a].branch) # Strip(items[b].branch)

Converged(pass) ==
  /\ pass.unresolved_emails = << >>
  /\ pass.unresolved_branch_prompts = << >>
  /\ pass.pc = "finalized"

\* The listing the allocation of the pass was given holds every correction
\* the pass was sent.
CorrectionsInSnapshot(pass) ==
  \A j \in 1..Len(pass.submitted_updates) :
    pass.submitted_updates[j].branch # "" =>
      /\ pass.submitted_updates[j].email \in DOMAIN pass.directory
      /\ pass.directory[pass.submitted_updates[j].email].branch
           = pass.submitted_updates[j].branch

\* C28 as stated: when a pass returned unresolved emails and pending
\* prompts, a following pass over the same uploads that sends a branch for
\* every such email and, for every such prompt, a branch from its
\* available_branches with no branch repeated within a line, returns
\* neither and is finalized; the corrections of a pass are in the listing
\* its allocation reads.
C28_AsStated ==
  vendor_type = "rounds" =>
    /\ \A k \in 1..(Len(issued) - 1) :
         (AskedForInput(issued[k]) /\ ResolvesAll(issued[k], issued[k + 1]))
           => Converged(issued[k + 1])
    /\ \A k \in 1..Len(issued) : CorrectionsInSnapshot(issued[k])

\* C28: the same, for a following pass that also sends again the answers
\* the previous pass accepted and names no branch twice among all the
\* answers it sends for a line.
C28_Convergence ==
  vendor_type = "rounds" =>
    /\ \A k \in 1..(Len(issued) - 1) :
         (/\ AskedForInput(issued[k])
          /\ ResolvesAll(issued[k], issued[k + 1])
          /\ Retains(issued[k], issued[k + 1])
          /\ DistinctAnswers(issued[k + 1]))
           => Converged(issued[k + 1])
    /\ \A k \in 1..Len(issued) : CorrectionsInSnapshot(issued[k])

\* A first pass returned ann@x.com and the prompts of both extra units; the
\* second pass sent her branch and two branches and was finalized.
C28_Witness ==
  /\ vendor_type = "rounds"
  /\ Len(issued) = 2
  /\ issued[1].unresolved_emails = << "ann@x.com" >>
  /\ Len(issued[1].unresolved_branch_prompts) = 2
  /\ ResolvesAll(issued[1], issued[2])
  /\ Retains(issued[1], issued[2])
  /\ DistinctAnswers(issued[2])
  /\ Converged(issued[2])
  /\ issued[2].directory["ann@x.com"].branch = "Canton"

\* A first pass accepted an answer for one unit and asked for the other;
\* the second pass sent both and was finalized.
C28_Retained ==
  /\ vendor_type = "rounds"
  /\ Len(issued) = 2
  /\ Len(issued[1].submitted_branch_item_updates) = 1
  /\ Len(issued[1].unresolved_branch_prompts) = 1
  /\ ResolvesAll(issued[1], issued[2])
  /\ Retains(issued[1], issued[2])
  /\ DistinctAnswers(issued[2])
  /\ Converged(issued[2])

(***************************************************************************)
(* C26: the rows of a line add up to the line's amount.                    *)
(***************************************************************************)
\* The export users the rule of line i matches (none for a fixed line).
MatchedUsers(i) ==
  IF invoice_lines[i].canonical_name \in dynamic_licenses
    THEN SelectSeq(users,
                   LAMBDA user :
                     IntegricomUserMatchesRule(user,
                                               invoice_lines[i].canonical_name))
    ELSE << >>

\* The user has an email and a branch, from the directory or the export.
Resolved(user) ==
  /\ NormalizeEmail(user.email) # ""
  /\ Strip(StrOr(ProfileBranch(user_directory, NormalizeEmail(user.email)),
                 user.default_branch)) # ""

\* C26: for every invoice line without a pending prompt whose matched users
\* all have a non-empty email and a resolved branch, the rows posted for the
\* line add up to the line's amount.
C26_AsStated ==
  \A i \in 1..Len(invoice_lines) :
    (/\ RulesRan(i)
     /\ LinePrompts(i) = << >>
     /\ \A k \in 1..Len(MatchedUsers(i)) : Resolved(MatchedUsers(i)[k]))
      => RowsSum(i) = invoice_lines[i].amount

(***************************************************************************)
(* C25: header lookup                                                      *)
(***************************************************************************)
\* The positions in the header row whose normalized header is an alias.
ExactHeaders ==
  { i \in 1..Len(text) :
      \E a \in 1..Len(scanner.aliases) :
        scanner.aliases[a] = NormalizeHeader(text[i]) }

\* The positions whose normalized header contains an alias or is contained
\* in one.
SubstringHeaders ==
  { i \in 1..Len(text) :
      \E a \in 1..Len(scanner.aliases) :
        \/ SubstringOf(scanner.aliases[a], NormalizeHeader(text[i]))
        \/ SubstringOf(NormalizeHeader(text[i]), scanner.aliases[a]) }

\* The last header of the row with the normalized name of the header at i.
LastSpelling(i) ==
  text[MaxOf({ j \in 1..Len(text) :
                 NormalizeHeader(text[j]) = NormalizeHeader(text[i]) })]

\* The first alias of the list that is the normalized name of a header.
LeadingAlias ==
  scanner.aliases[MinOf({ a \in 1..Len(scanner.aliases) :
                            \E i \in ExactHeaders :
                              NormalizeHeader(text[i]) = scanner.aliases[a] })]

ColumnLooked == vendor_type = "headers" /\ scanner.index > 0

\* C25 as stated: an exact match takes precedence over a substring match,
\* within a pass the header first in the header row is returned, and None
\* is returned only when no header matches in either pass.
C25_AsStated ==
  ColumnLooked =>
    IF ExactHeaders # { } THEN scanner.column = text[MinOf(ExactHeaders)]
    ELSE IF SubstringHeaders # { }
      THEN scanner.column = text[MinOf(SubstringHeaders)]
    ELSE scanner.column = None

\* C25: an exact match takes precedence over a substring match and None is
\* returned only when no header matches in either pass; among exact
\* matches the alias first in the alias list decides, among substring
\* matches the header first in the header row decides, and of several
\* headers with one normalized name the last is the one returned.
C25_MatchHeader ==
  ColumnLooked =>
    IF ExactHeaders # { }
      THEN \E i \in ExactHeaders :
             /\ NormalizeHeader(text[i]) = LeadingAlias
             /\ scanner.column = LastSpelling(i)
    ELSE IF SubstringHeaders # { }
      THEN scanner.column = LastSpelling(MinOf(SubstringHeaders))
    ELSE scanner.column = None

\* A row where a substring match comes first, then two exact matches in
\* the reverse of the alias order.
C25_Witness ==
  /\ ColumnLooked
  /\ text = << "Name", "Last", "Last Name" >>
  /\ scanner.aliases = << "last_name", "last", "surname", "family_name" >>
  /\ scanner.column = "Last Name"

(***************************************************************************)
(* C23: the buffered line-item scanner                                     *)
(***************************************************************************)
ScanRunning == vendor_type = "invoice text"

ScanLineText(i) == NormalizeIntegricomText(text[i])

BlankLine(i) == ScanLineText(i) = ""

\* A section-header or trailer line.
HeaderOrTrailer(i) == ~BlankLine(i) /\ IsResetLine(ScanLineText(i))

\* A line ending in three decimal tokens.
EndsInAmounts(i) == ~BlankLine(i) /\ PatternMatch(ScanLineText(i)).matched

\* The position of the most recent header, trailer or matching line before
\* position j; 0 when there is none.
LastBreak(j) ==
  MaxOf({ 0 } \cup { i \in 1..(j - 1) : HeaderOrTrailer(i) \/ EndsInAmounts(i) })

\* The positions of the non-blank lines from a to b, in order.
PositionsBetween(a, b) ==
  SelectSeq([ k \in 1..(b - a + 1) |-> a + k - 1 ],
            LAMBDA i : ~BlankLine(i))

LinesAt(positions) ==
  [ k \in 1..Len(positions) |-> ScanLineText(positions[k]) ]

\* The space-join of the lines since the last break before j, followed by
\* the inline fragment of line j.
ExpectedDescription(j) ==
  LET parts == LinesAt(PositionsBetween(LastBreak(j) + 1, j - 1))
      inline == NormalizeIntegricomText(PatternMatch(ScanLineText(j)).desc)
  IN  JoinWords(IF inline # "" THEN Append(parts, inline) ELSE parts)

SeqRange(seq) == { seq[k] : k \in 1..Len(seq) }

\* C23: a header or trailer line empties the buffer and emits nothing; a
\* line ending in three decimal tokens emits at most one item and empties
\* the buffer; the description of every item is the space-join, in order,
\* of the non-blank lines since the most recent header, trailer or
\* matching line, followed by the inline fragment of the matching line; no
\* buffered line contributes to two items.
C23_BufferedScanner ==
  ScanRunning =>
    /\ Len(scanner.built_from) = Len(scanner.line_items)
    /\ \A k \in 1..Len(scanner.line_items) :
         LET at == scanner.built_from[k].at
         IN  /\ at \in 1..scanner.index
             /\ EndsInAmounts(at) /\ ~HeaderOrTrailer(at)
             /\ scanner.line_items[k].description = ExpectedDescription(at)
             /\ scanner.built_from[k].lines =
                  PositionsBetween(LastBreak(at) + 1, at - 1)
    /\ \A k1, k2 \in 1..Len(scanner.built_from) :
         k1 < k2 =>
           /\ scanner.built_from[k1].at < scanner.built_from[k2].at
           /\ SeqRange(scanner.built_from[k1].lines)
                \cap SeqRange(scanner.built_from[k2].lines) = { }
    /\ scanner.index > 0
         /\ (HeaderOrTrailer(scanner.index) \/ EndsInAmounts(scanner.index))
         => scanner.description_buffer = << >>
    /\ scanner.description_buffer =
         LinesAt(PositionsBetween(LastBreak(scanner.index + 1) + 1,
                                  scanner.index))

\* A description wrapped over two lines, completed by a line item with an
\* inline fragment.
C23_Witness ==
  /\ ScanRunning
  /\ scanner.done
  /\ \E k \in 1..Len(scanner.line_items) :
       /\ Len(scanner.built_from[k].lines) = 2
       /\ scanner.line_items[k].description = "NetWatch360 Managed Firewall"

(***************************************************************************)
(* C24: billable support blocks                                            *)
(***************************************************************************)
BlocksRunning == vendor_type = "support text"

\* What the body of the i-th block of the text holds.
MarkersOf(i) == BodyMarkers(text[i].body)

SubtotalsOf(i) == BodyFinds(text[i].body, "subtotals")

EntrySumOf(i) == SeqTotal(BodyFinds(text[i].body, "amounts"))

\* The retained blocks that came from the i-th block of the text.
RetainedFrom(i) ==
  { k \in 1..Len(scanner.blocks) : scanner.blocks[k].row_key[1] = i }

\* C24: a block is retained only if its body has a billable marker; the
\* amount of a retained block is its explicit subtotal when there is one
\* and the sum of the per-entry amounts only when there is none; a block
\* with markers, no subtotal and a zero per-entry sum is dropped with a
\* warning naming its index, so no retained amount is a defaulted zero.
C24_BillableBlocks ==
  BlocksRunning =>
    /\ \A k \in 1..Len(scanner.blocks) :
         scanner.blocks[k].row_key[1] \in 1..scanner.index
    /\ \A i \in 1..scanner.index :
         /\ Cardinality(RetainedFrom(i)) <= 1
         /\ \A k \in RetainedFrom(i) :
              /\ MarkersOf(i) >= 1
              /\ SubtotalsOf(i) # << >>
                   => scanner.blocks[k].amount = Head(SubtotalsOf(i))
              /\ SubtotalsOf(i) = << >>
                   => /\ scanner.blocks[k].amount = EntrySumOf(i)
                      /\ EntrySumOf(i) # 0
         /\ (MarkersOf(i) >= 1 /\ SubtotalsOf(i) = << >> /\ EntrySumOf(i) = 0)
              => /\ RetainedFrom(i) = { }
                 /\ \E w \in 1..Len(scanner.warnings) :
                      scanner.warnings[w] =
                        [ kind |-> "no parseable amount", block |-> i ]

\* A text whose first block has a subtotal that differs from the sum of
\* its entries and whose second block has markers and no amount.
C24_Witness ==
  /\ BlocksRunning
  /\ scanner.done
  /\ Len(text) = 2
  /\ text[1].body = << BilledEntry, "Subtotal: $300.00" >>
  /\ text[2].body = << WrappedEntry >>
  /\ Len(scanner.blocks) = 1
  /\ scanner.blocks[1].amount = 300000
  /\ scanner.warnings = << [ kind |-> "no parseable amount", block |-> 2 ] >>

(***************************************************************************)
(* C29: reconciliation with the invoice total                              *)
(***************************************************************************)
\* A finalized pass whose invoice total was parsed.
ReconciledPass ==
  /\ vendor_type = "reconciliation"
  /\ summarized # << >>
  /\ scanner.invoice_total # << >>

AdjustmentRowOf(row) ==
  /\ row.branch = AdjustmentHomeOffice(api_request.vendor_type)
  /\ row.license = AdjustmentLicense(api_request.vendor_type)

\* The total of the adjustment row in a summary; 0 when it has none.
AdjustmentRowTotal(summary_rows) ==
  SummaryTotal(SelectSeq(summary_rows, AdjustmentRowOf))

\* C29: in a finalized pass whose invoice total was parsed, the totals of
\* the returned summary add up to the invoice total, the difference
\* between the invoice total and the computed total is in the one Home
\* Office adjustment row, and every other row is as build_breakdown
\* returned it.
C29_InvoiceReconciliation ==
  ReconciledPass =>
    /\ adjusted.applied
    /\ SummaryTotal(adjusted.summary) = scanner.invoice_total[1]
    /\ Len(SelectSeq(adjusted.summary, AdjustmentRowOf)) <= 1
    /\ AdjustmentRowTotal(adjusted.summary)
         = AdjustmentRowTotal(summary)
           + (scanner.invoice_total[1] - SummaryTotal(summary))
    /\ SelectSeq(adjusted.summary, LAMBDA row : ~AdjustmentRowOf(row))
         = SelectSeq(summary, LAMBDA row : ~AdjustmentRowOf(row))

\* A pass whose rows include half cents and whose invoice total is above
\* what the breakdown adds up to: the adjustment row is new.
C29_Witness ==
  /\ ReconciledPass
  /\ SummaryTotal(summary) # scanner.invoice_total[1]
  /\ SelectSeq(summary, AdjustmentRowOf) = << >>
  /\ Len(SelectSeq(adjusted.summary, AdjustmentRowOf)) = 1
  /\ \E i \in 1..Len(rows) : rows[i].amount = 5
  /\ Len(summary) = 2

\* A pass where the adjustment is added to a row the breakdown already had.
C29_ExistingRow ==
  /\ ReconciledPass
  /\ adjusted.adjustment # 0
  /\ Len(SelectSeq(summary, AdjustmentRowOf)) = 1
  /\ Len(adjusted.summary) = Len(summary)

====
